---- MODULE Spec2Model ----
(***************************************************************************)
(* Model of github.com/keep94/consume2: push-based consumers.              *)
(*                                                                         *)
(* Two versions of the package are modelled side by side:                  *)
(*   variant = "panic"   src/consume.go          Consume panics when       *)
(*                                               CanConsume is false       *)
(*   variant = "silent"  src/unnamed/part_001    Consume ignores the value *)
(*                                               when CanConsume is false  *)
(*                                                                         *)
(* Consumer objects live in `heap` (reference -> object), the slices and   *)
(* flags they write through pointers live in `mem` (cell -> content).      *)
(* Every method is an operator from a world [heap, mem, trace, panic] to   *)
(* the world after the call; `trace` lists the method, predicate and       *)
(* mapper invocations the call made, `panic` says that the call panicked   *)
(* (the effects made before the panic stay, as after recover()).           *)
(***************************************************************************)
EXTENDS Integers, Sequences, FiniteSets, TLC

VARIABLES
    variant,    \* which version of the package the objects belong to
    heap,       \* reference -> consumer object (fields named as in the source)
    mem,        \* cell -> content: the slices behind aSlicePtr, the morePages flags
    handles,    \* the references the caller holds
    root,       \* the outermost consumer, the one a driver feeds
    args,       \* the page number and page size the caller asked for
    last,       \* the call made by the last step and what it returned
    trace,      \* the invocations made inside the last call, in order
    sawFalse,   \* history: the references whose CanConsume has returned false
    nops,       \* history: number of Consume calls made by the caller
    built,      \* the result of the last PageBuilder.Build
    pc,         \* position of the driver ("free" when there is no driver)
    input,      \* the values the driver has to push
    index,      \* the driver's loop index
    twin        \* a second consumer given the same calls, and what it returned

vars == <<variant, heap, mem, handles, root, args, last, trace, sawFalse, nops,
          built, pc, input, index, twin>>

-----------------------------------------------------------------------------
(* Bounds of the model *)

MaxVal == 1

MaxOps == 3

MaxLen == 5

MaxPageNo == 1

MaxPerPage == 2

MaxIdx == 2

Vals == 0..MaxVal

-----------------------------------------------------------------------------
(* Predicates and mappers handed to the stages (the functions of the tests) *)

RECURSIVE Digits(_)
Digits(n) == IF n < 10 THEN <<n>> ELSE Append(Digits(n \div 10), n % 10)

\* strconv.Itoa on a non-negative int: its decimal digits
Itoa(n) == Digits(n)

\* func(value T) bool
ApplyFilter(f, v) ==
    CASE f = "true" -> TRUE
      [] f = "even" -> v % 2 = 0
      [] f = "zero" -> v = 0
      [] f = "odd" -> v % 2 = 1

\* func(ptr *T) bool: the value left behind the pointer, and the result
ApplyFilterp(f, v) ==
    CASE f = "double" -> [value |-> 2 * v, ok |-> TRUE]
      [] f = "tenfoldEven" -> IF v % 2 # 0 THEN [value |-> v, ok |-> FALSE]
                              ELSE [value |-> 10 * v, ok |-> TRUE]

\* func(T) U
ApplyMapper(m, v) ==
    CASE m = "itoa" -> Itoa(v)
      [] m = "triple" -> 3 * v

\* func(T) (U, bool)
ApplyMaybeMapper(m, v) ==
    CASE m = "evenItoa" -> IF v % 2 = 1 THEN [value |-> <<>>, ok |-> FALSE]
                           ELSE [value |-> Itoa(v), ok |-> TRUE]
      [] m = "halfEven" -> IF v % 2 = 1 THEN [value |-> 0, ok |-> FALSE]
                           ELSE [value |-> v \div 2, ok |-> TRUE]

-----------------------------------------------------------------------------
(* ComposeFilters.  A predicate value is a record: the always-true         *)
(* function, one of the functions handed in, or the closure over a copy of *)
(* the list.  Calling it gives its result and the functions of the list    *)
(* it invoked, by their position in the list.                              *)

trueFunc == [kind |-> "trueFunc"]

ComposeFilters(filters) ==
    CASE Len(filters) = 0 -> trueFunc
      [] Len(filters) = 1 -> [kind |-> "func", filter |-> filters[1]]
      [] OTHER -> [kind |-> "closure", filterList |-> filters]

\* a bug: every function of the list is called, the results are and-ed
RECURSIVE composedLoop_evalAll(_, _, _, _)
composedLoop_evalAll(filterList, i, value, calls) ==
    IF i > Len(filterList)
    THEN [ret |-> \A j \in 1..Len(filterList) :
                     ApplyFilter(filterList[j], value),
          calls |-> calls]
    ELSE composedLoop_evalAll(filterList, i + 1, value, Append(calls, i))

\* for _, f := range filterList { if !f(value) { return false } }
\* return true
RECURSIVE composedLoop(_, _, _, _)
composedLoop(filterList, i, value, calls) ==
    IF i > Len(filterList) THEN [ret |-> TRUE, calls |-> calls]
    ELSE IF ~ApplyFilter(filterList[i], value)
         THEN [ret |-> FALSE, calls |-> Append(calls, i)]
         ELSE composedLoop(filterList, i + 1, value, Append(calls, i))

\* the call filter(value) of a predicate value
CallFilter(filter, value) ==
    CASE filter.kind = "trueFunc" -> [ret |-> TRUE, calls |-> <<>>]
      [] filter.kind = "func" ->
            [ret |-> ApplyFilter(filter.filter, value), calls |-> <<1>>]
      [] filter.kind = "closure" ->
            composedLoop(filter.filterList, 1, value, <<>>)

-----------------------------------------------------------------------------
(* Worlds *)

\* The reference to a nilConsumer[T]{} value (a stateless value type)
NilRef == 0

\* The nil interface value: a Consumer[T] variable that holds no consumer
Null == -1

Obj(w, n) ==
    CASE n = NilRef -> [kind |-> "nilConsumer"]
      [] n = Null -> [kind |-> "nil"]
      [] OTHER -> w.heap[n]

\* A slice []Consumer[T]: the cell of its backing array and its length
SliceOf(array, len) == [array |-> array, len |-> len]

\* the elements of slice sl
Elems(w, sl) == SubSeq(w.mem[sl.array], 1, sl.len)

Log(w, e) == [w EXCEPT !.trace = Append(@, e)]

Panic(w) == [w EXCEPT !.panic = TRUE]

\* the world a call of package version ver starts in
WorldOf(ver, h, m) ==
    [version |-> ver, heap |-> h, mem |-> m, trace |-> <<>>, panic |-> FALSE]

World(h, m) == WorldOf(variant, h, m)

RECURSIVE CanConsume(_, _)
RECURSIVE Consume(_, _, _)

\* MustCanConsume panics if c cannot consume
\* r is what c.CanConsume() gave
PanicUnless(r) == IF r.ret THEN r.w ELSE Panic(r.w)

MustCanConsume(w, n) == PanicUnless(CanConsume(w, n))

-----------------------------------------------------------------------------
(* Constructors: the object each one allocates *)

AppendTo(aSlicePtr) == [kind |-> "appendConsumer", slicePtr |-> aSlicePtr]

Slice(consumer, start, end) ==
    [kind |-> "sliceConsumer", consumer |-> consumer,
     start |-> start, end |-> end, idx |-> 0]

Filter(consumer, filter) ==
    [kind |-> "filterConsumer", Consumer |-> consumer, filter |-> filter]

Filterp(consumer, filter) ==
    [kind |-> "filterpConsumer", Consumer |-> consumer, filter |-> filter]

TakeWhile(consumer, filter) ==
    [kind |-> "takeWhileConsumer", consumer |-> consumer, filter |-> filter,
     done |-> FALSE]

Map(consumer, mapper) ==
    [kind |-> "mapConsumer", Consumer |-> consumer, mapper |-> mapper]

MaybeMap(consumer, mapper) ==
    [kind |-> "maybeMapConsumer", Consumer |-> consumer, mapper |-> mapper]

\* a bug: the composite keeps the caller's slice instead of a copy
Compose_aliased(self, consumerList, consumers, m) ==
    CASE consumers.len = 0 -> [ref |-> NilRef, objs |-> <<>>, mem |-> m]
      [] consumers.len = 1 ->
            [ref |-> m[consumers.array][1], objs |-> <<>>, mem |-> m]
      [] OTHER ->
            [ref  |-> self,
             objs |-> self :> [kind |-> "multiConsumer",
                               consumers |-> consumers],
             mem  |-> (consumerList :> SubSeq(m[consumers.array], 1,
                                              consumers.len)) @@ m]

\* a bug: no consumers give the nil interface value
Compose_nilForNone(self, consumerList, consumers, m) ==
    CASE consumers.len = 0 -> [ref |-> Null, objs |-> <<>>, mem |-> m]
      [] consumers.len = 1 ->
            [ref |-> m[consumers.array][1], objs |-> <<>>, mem |-> m]
      [] OTHER ->
            [ref  |-> self,
             objs |-> self :> [kind |-> "multiConsumer",
                               consumers |-> SliceOf(consumerList,
                                                     consumers.len)],
             mem  |-> (consumerList :> SubSeq(m[consumers.array], 1,
                                              consumers.len)) @@ m]

\* Compose allocates an object (at reference self) and a backing array (the
\* cell consumerList) only for two or more consumers: ref is the reference
\* it returns, objs what it allocates, mem the cells after the call.
\* consumers is the caller's slice.
Compose(self, consumerList, consumers, m) ==
    CASE consumers.len = 0 -> [ref |-> NilRef, objs |-> <<>>, mem |-> m]
      [] consumers.len = 1 ->
            [ref |-> m[consumers.array][1], objs |-> <<>>, mem |-> m]
      [] OTHER ->
            [ref  |-> self,
             objs |-> self :> [kind |-> "multiConsumer",
                               consumers |-> SliceOf(consumerList,
                                                     consumers.len)],
             mem  |-> (consumerList :> SubSeq(m[consumers.array], 1,
                                              consumers.len)) @@ m]

\* a bug: a slice whose capacity suffices is left as it is, the [:0] is
\* missing
ensureEmptyWithCapacity_keptWhenLarge(content, capacity) ==
    IF Len(content) < capacity THEN <<>> ELSE content

\* ensureEmptyWithCapacity leaves a slice of length 0
ensureEmptyWithCapacity(content, capacity) == SubSeq(content, 1, 0)

\* a bug: the window ends at the page's last value, without the one value
\* of lookahead
Page_noLookahead(self, zeroBasedPageNo, itemsPerPage, aSlicePtr, morePages, m) ==
    [panic |-> zeroBasedPageNo < 0 \/ itemsPerPage <= 0,
     ref   |-> self + 3,
     objs  |-> (self + 1 :> AppendTo(aSlicePtr))
            @@ (self + 2 :> Slice(self + 1, zeroBasedPageNo * itemsPerPage,
                                  (zeroBasedPageNo + 1) * itemsPerPage))
            @@ (self + 3 :> [kind |-> "pageConsumer", Consumer |-> self + 2,
                             itemsPerPage |-> itemsPerPage,
                             aSlicePtr |-> aSlicePtr, morePages |-> morePages,
                             finalized |-> FALSE]),
     mem   |-> [m EXCEPT ![aSlicePtr] =
                    ensureEmptyWithCapacity(@, itemsPerPage + 1)]]

\* a bug: a page size of zero is let through
Page_zeroPerPage(self, zeroBasedPageNo, itemsPerPage, aSlicePtr, morePages, m) ==
    [panic |-> zeroBasedPageNo < 0 \/ itemsPerPage < 0,
     ref   |-> self + 3,
     objs  |-> (self + 1 :> AppendTo(aSlicePtr))
            @@ (self + 2 :> Slice(self + 1, zeroBasedPageNo * itemsPerPage,
                                  (zeroBasedPageNo + 1) * itemsPerPage + 1))
            @@ (self + 3 :> [kind |-> "pageConsumer", Consumer |-> self + 2,
                             itemsPerPage |-> itemsPerPage,
                             aSlicePtr |-> aSlicePtr, morePages |-> morePages,
                             finalized |-> FALSE]),
     mem   |-> [m EXCEPT ![aSlicePtr] =
                    ensureEmptyWithCapacity(@, itemsPerPage + 1)]]

\* Page allocates the append consumer at self+1, the slice at self+2 and the
\* pageConsumer at self+3; it empties the caller's slice.
Page(self, zeroBasedPageNo, itemsPerPage, aSlicePtr, morePages, m) ==
    [panic |-> zeroBasedPageNo < 0 \/ itemsPerPage <= 0,
     ref   |-> self + 3,
     objs  |-> (self + 1 :> AppendTo(aSlicePtr))
            @@ (self + 2 :> Slice(self + 1, zeroBasedPageNo * itemsPerPage,
                                  (zeroBasedPageNo + 1) * itemsPerPage + 1))
            @@ (self + 3 :> [kind |-> "pageConsumer", Consumer |-> self + 2,
                             itemsPerPage |-> itemsPerPage,
                             aSlicePtr |-> aSlicePtr, morePages |-> morePages,
                             finalized |-> FALSE]),
     mem   |-> [m EXCEPT ![aSlicePtr] =
                    ensureEmptyWithCapacity(@, itemsPerPage + 1)]]

\* a bug: the window ends at the page's last value, without the one value
\* of lookahead
NewPageBuilder_noLookahead(self, zeroBasedPageNo, valuesPerPage, values, m) ==
    [panic |-> zeroBasedPageNo < 0 \/ valuesPerPage <= 0,
     ref   |-> self + 3,
     objs  |-> (self + 1 :> AppendTo(values))
            @@ (self + 2 :> Slice(self + 1, zeroBasedPageNo * valuesPerPage,
                                  (zeroBasedPageNo + 1) * valuesPerPage))
            @@ (self + 3 :> [kind |-> "PageBuilder", consumer |-> self + 2,
                             values |-> values,
                             valuesPerPage |-> valuesPerPage]),
     mem   |-> [m EXCEPT ![values] = <<>>]]

\* NewPageBuilder allocates the append consumer at self+1, the slice at
\* self+2 and the PageBuilder at self+3; values is the builder's own slice.
NewPageBuilder(self, zeroBasedPageNo, valuesPerPage, values, m) ==
    [panic |-> zeroBasedPageNo < 0 \/ valuesPerPage <= 0,
     ref   |-> self + 3,
     objs  |-> (self + 1 :> AppendTo(values))
            @@ (self + 2 :> Slice(self + 1, zeroBasedPageNo * valuesPerPage,
                                  (zeroBasedPageNo + 1) * valuesPerPage + 1))
            @@ (self + 3 :> [kind |-> "PageBuilder", consumer |-> self + 2,
                             values |-> values,
                             valuesPerPage |-> valuesPerPage]),
     mem   |-> [m EXCEPT ![values] = <<>>]]

-----------------------------------------------------------------------------
(* Pipelines.  A Pipeline value is a function from the inner consumer to   *)
(* the consumer it builds: here the record of the function literal that    *)
(* made it and of the variables that literal closes over.  Apply is the    *)
(* call p(inner): it allocates in heap h and gives the consumer returned   *)
(* and the heap after.                                                     *)

PFilter(filter) == [op |-> "PFilter", filter |-> filter]

PFilterp(filter) == [op |-> "PFilterp", filter |-> filter]

PMap(mapper) == [op |-> "PMap", mapper |-> mapper]

PMaybeMap(mapper) == [op |-> "PMaybeMap", mapper |-> mapper]

PSlice(start, end) == [op |-> "PSlice", start |-> start, end |-> end]

PTakeWhile(filter) == [op |-> "PTakeWhile", filter |-> filter]

Identity == [op |-> "Identity"]

\* a bug: of a first pipeline that is itself a join only the first part is
\* kept
Join_dropsTail(first, second) ==
    [op |-> "Join",
     first |-> IF first.op = "Join" THEN first.first ELSE first,
     second |-> second]

Join(first, second) == [op |-> "Join", first |-> first, second |-> second]

\* the address of a new object
Fresh(h) ==
    IF DOMAIN h = {} THEN 1
    ELSE 1 + CHOOSE m \in DOMAIN h : \A k \in DOMAIN h : k <= m

\* a bug: an object of the same kind made by an earlier run is used again
New_reused(h, obj) ==
    IF \E n \in DOMAIN h : h[n].kind = obj.kind
    THEN [ref |-> CHOOSE n \in DOMAIN h : h[n].kind = obj.kind, heap |-> h]
    ELSE [ref |-> Fresh(h), heap |-> (Fresh(h) :> obj) @@ h]

\* the allocation of obj
New(h, obj) == [ref |-> Fresh(h), heap |-> (Fresh(h) :> obj) @@ h]

RECURSIVE Apply(_, _, _)
Apply(p, inner, h) ==
    CASE p.op = "Join" ->
            LET r == Apply(p.second, inner, h)
            IN  Apply(p.first, r.ref, r.heap)
      [] p.op = "Identity" -> [ref |-> inner, heap |-> h]
      [] p.op = "PFilter" -> New(h, Filter(inner, p.filter))
      [] p.op = "PFilterp" -> New(h, Filterp(inner, p.filter))
      [] p.op = "PMap" -> New(h, Map(inner, p.mapper))
      [] p.op = "PMaybeMap" -> New(h, MaybeMap(inner, p.mapper))
      [] p.op = "PSlice" -> New(h, Slice(inner, p.start, p.end))
      [] p.op = "PTakeWhile" -> New(h, TakeWhile(inner, p.filter))

\* p.Run(consumer)
Pipeline_Run(p, consumer, h) == Apply(p, consumer, h)

\* p.AppendTo(aSlicePtr)
Pipeline_AppendTo(p, aSlicePtr, h) ==
    LET r == New(h, AppendTo(aSlicePtr))
    IN  Pipeline_Run(p, r.ref, r.heap)

-----------------------------------------------------------------------------
(* CanConsume of each kind of consumer *)

appendConsumer_CanConsume(w, n) == [w |-> w, ret |-> TRUE]

nilConsumer_CanConsume(w, n) == [w |-> w, ret |-> FALSE]

\* a bug: the end of the window is tested for with "not equal"
sliceConsumer_CanConsume_notEqual(w, n) ==
    LET r == CanConsume(w, Obj(w, n).consumer)
    IN  [w |-> r.w, ret |-> r.ret /\ Obj(r.w, n).idx # Obj(r.w, n).end]

\* a bug: the window is closed at its end
sliceConsumer_CanConsume_inclusive(w, n) ==
    LET r == CanConsume(w, Obj(w, n).consumer)
    IN  [w |-> r.w, ret |-> r.ret /\ Obj(r.w, n).idx <= Obj(r.w, n).end]

\* src/consume.go: the inner consumer is asked first
sliceConsumer_CanConsume(w, n) ==
    LET r == CanConsume(w, Obj(w, n).consumer)
    IN  [w |-> r.w, ret |-> r.ret /\ Obj(r.w, n).idx < Obj(r.w, n).end]

\* part_001: the index is compared first, the inner consumer asked only then
sliceConsumer_CanConsumeS(w, n) ==
    IF Obj(w, n).idx < Obj(w, n).end
    THEN CanConsume(w, Obj(w, n).consumer)
    ELSE [w |-> w, ret |-> FALSE]

\* filterConsumer, filterpConsumer, mapConsumer, maybeMapConsumer and
\* pageConsumer embed their Consumer: CanConsume is the embedded one's
embedded_CanConsume(w, n) == CanConsume(w, Obj(w, n).Consumer)

\* a bug: the latch is not looked at
takeWhileConsumer_CanConsume_innerOnly(w, n) ==
    CanConsume(w, Obj(w, n).consumer)

takeWhileConsumer_CanConsume(w, n) ==
    LET r == CanConsume(w, Obj(w, n).consumer)
    IN  [w |-> r.w, ret |-> r.ret /\ ~Obj(r.w, n).done]

takeWhileConsumer_CanConsumeS(w, n) ==
    IF ~Obj(w, n).done
    THEN CanConsume(w, Obj(w, n).consumer)
    ELSE [w |-> w, ret |-> FALSE]

\* a bug: the loop keeps every member, whatever its CanConsume returns
RECURSIVE filterFinishedLoop_keepsAll(_, _, _, _)
filterFinishedLoop_keepsAll(w, consumers, i, kept) ==
    IF i > Len(consumers) THEN [w |-> w, kept |-> kept]
    ELSE LET r == CanConsume(w, consumers[i])
         IN  filterFinishedLoop_keepsAll(r.w, consumers, i + 1,
                 Append(kept, consumers[i]))

\* a bug: the members that can consume are kept last to first
RECURSIVE filterFinishedLoop_reversed(_, _, _, _)
filterFinishedLoop_reversed(w, consumers, i, kept) ==
    IF i > Len(consumers) THEN [w |-> w, kept |-> kept]
    ELSE LET r == CanConsume(w, consumers[i])
         IN  filterFinishedLoop_reversed(r.w, consumers, i + 1,
                 IF r.ret THEN <<consumers[i]>> \o kept ELSE kept)

\* the first loop of filterFinished: the members that can consume, in order
RECURSIVE filterFinishedLoop(_, _, _, _)
filterFinishedLoop(w, consumers, i, kept) ==
    IF i > Len(consumers) THEN [w |-> w, kept |-> kept]
    ELSE LET r == CanConsume(w, consumers[i])
         IN  filterFinishedLoop(r.w, consumers, i + 1,
                 IF r.ret THEN Append(kept, consumers[i]) ELSE kept)

\* the members kept move to the front of the backing array, the entries
\* behind them are set to nil, and the slice is cut to the members kept
multiConsumer_filterFinished(w, n) ==
    LET sl  == Obj(w, n).consumers
        r   == filterFinishedLoop(w, Elems(w, sl), 1, <<>>)
        idx == Len(r.kept)
    IN  [r.w EXCEPT !.mem[sl.array] =
                        [i \in DOMAIN @ |-> IF i <= idx THEN r.kept[i]
                                            ELSE IF i <= sl.len THEN Null
                                            ELSE @[i]],
                    !.heap[n].consumers = SliceOf(sl.array, idx)]

\* a bug: the length of the list is reported without asking the members
multiConsumer_CanConsume_unasked(w, n) ==
    [w |-> w, ret |-> Obj(w, n).consumers.len > 0]

multiConsumer_CanConsume(w, n) ==
    LET w1 == multiConsumer_filterFinished(w, n)
    IN  [w |-> w1, ret |-> Obj(w1, n).consumers.len > 0]

PageBuilder_CanConsume(w, n) == CanConsume(w, Obj(w, n).consumer)

\* the return of n.CanConsume(), recorded in the trace
Returned(r, n) ==
    [w |-> Log(r.w, [ev |-> "CanConsume", node |-> n, ret |-> r.ret]),
     ret |-> r.ret]

CanConsume(w, n) ==
    LET k == Obj(w, n).kind
    IN  Returned(
            CASE k = "appendConsumer" -> appendConsumer_CanConsume(w, n)
               [] k = "nilConsumer" -> nilConsumer_CanConsume(w, n)
               [] k = "nil" -> [w |-> Panic(w), ret |-> FALSE]
               [] k = "sliceConsumer" ->
                     IF w.version = "panic" THEN sliceConsumer_CanConsume(w, n)
                     ELSE sliceConsumer_CanConsumeS(w, n)
               [] k = "takeWhileConsumer" ->
                     IF w.version = "panic"
                     THEN takeWhileConsumer_CanConsume(w, n)
                     ELSE takeWhileConsumer_CanConsumeS(w, n)
               [] k = "multiConsumer" -> multiConsumer_CanConsume(w, n)
               [] k = "PageBuilder" -> PageBuilder_CanConsume(w, n)
               [] OTHER -> embedded_CanConsume(w, n),
            n)

-----------------------------------------------------------------------------
(* Consume of each kind of consumer.  A name ending in S is the method of  *)
(* part_001, the others are the methods of src/consume.go.                 *)

appendConsumer_Consume(w, n, v) ==
    [w EXCEPT !.mem[Obj(w, n).slicePtr] = Append(@, v)]

nilConsumer_Consume(w, n, v) == Panic(w)

nilConsumer_ConsumeS(w, n, v) == w

\* a bug: the start th value is not passed on (> for >=)
sliceConsumer_Consume_offByOne(w, n, v) ==
    LET w1 == MustCanConsume(w, n)
        w2 == IF Obj(w1, n).idx > Obj(w1, n).start
              THEN Consume(w1, Obj(w1, n).consumer, v)
              ELSE w1
    IN  IF w1.panic THEN w1
        ELSE IF w2.panic THEN w2
        ELSE [w2 EXCEPT !.heap[n].idx = @ + 1]

\* a bug: the values before start are passed on as well
sliceConsumer_Consume_fromZero(w, n, v) ==
    LET w1 == MustCanConsume(w, n)
        w2 == Consume(w1, Obj(w1, n).consumer, v)
    IN  IF w1.panic THEN w1
        ELSE IF w2.panic THEN w2
        ELSE [w2 EXCEPT !.heap[n].idx = @ + 1]

sliceConsumer_Consume(w, n, v) ==
    LET w1 == MustCanConsume(w, n)
        w2 == IF Obj(w1, n).idx >= Obj(w1, n).start
              THEN Consume(w1, Obj(w1, n).consumer, v)
              ELSE w1
    IN  IF w1.panic THEN w1
        ELSE IF w2.panic THEN w2
        ELSE [w2 EXCEPT !.heap[n].idx = @ + 1]

\* a bug: no test of the index against end
sliceConsumer_ConsumeS_unguarded(w, n, v) ==
    LET w1 == IF Obj(w, n).idx >= Obj(w, n).start
              THEN Consume(w, Obj(w, n).consumer, v)
              ELSE w
    IN  [w1 EXCEPT !.heap[n].idx = @ + 1]

sliceConsumer_ConsumeS(w, n, v) ==
    IF Obj(w, n).idx >= Obj(w, n).end THEN w
    ELSE LET w1 == IF Obj(w, n).idx >= Obj(w, n).start
                   THEN Consume(w, Obj(w, n).consumer, v)
                   ELSE w
         IN  [w1 EXCEPT !.heap[n].idx = @ + 1]

\* the call of the filter function, then the forwarding
filterConsumer_forward(w, n, v) ==
    LET w1 == Log(w, [ev |-> "filter", node |-> n, value |-> v])
    IN  IF ApplyFilter(Obj(w, n).filter, v)
        THEN Consume(w1, Obj(w, n).Consumer, v)
        ELSE w1

\* a bug: the filter is called without MustCanConsume before it
filterConsumer_Consume_unchecked(w, n, v) == filterConsumer_forward(w, n, v)

filterConsumer_Consume(w, n, v) ==
    LET w1 == MustCanConsume(w, n)
    IN  IF w1.panic THEN w1 ELSE filterConsumer_forward(w1, n, v)

filterConsumer_ConsumeS(w, n, v) == filterConsumer_forward(w, n, v)

\* the filter gets a pointer to the method's own copy of the value
\* a bug: the predicate is given a copy, the value is passed on as it came
filterpConsumer_forward_unmutated(w, n, v) ==
    LET w1 == Log(w, [ev |-> "filter", node |-> n, value |-> v])
        r  == ApplyFilterp(Obj(w, n).filter, v)
    IN  IF r.ok THEN Consume(w1, Obj(w, n).Consumer, v) ELSE w1

\* f.filter(&value), then the forwarding of value as the predicate left it
filterpConsumer_forward(w, n, v) ==
    LET w1 == Log(w, [ev |-> "filter", node |-> n, value |-> v])
        r  == ApplyFilterp(Obj(w, n).filter, v)
    IN  IF r.ok THEN Consume(w1, Obj(w, n).Consumer, r.value) ELSE w1

filterpConsumer_Consume(w, n, v) ==
    LET w1 == MustCanConsume(w, n)
    IN  IF w1.panic THEN w1 ELSE filterpConsumer_forward(w1, n, v)

filterpConsumer_ConsumeS(w, n, v) == filterpConsumer_forward(w, n, v)

mapConsumer_forward(w, n, v) ==
    Consume(Log(w, [ev |-> "mapper", node |-> n, value |-> v]),
            Obj(w, n).Consumer, ApplyMapper(Obj(w, n).mapper, v))

mapConsumer_Consume(w, n, v) ==
    LET w1 == MustCanConsume(w, n)
    IN  IF w1.panic THEN w1 ELSE mapConsumer_forward(w1, n, v)

mapConsumer_ConsumeS(w, n, v) == mapConsumer_forward(w, n, v)

maybeMapConsumer_forward(w, n, v) ==
    LET w1 == Log(w, [ev |-> "mapper", node |-> n, value |-> v])
        r  == ApplyMaybeMapper(Obj(w, n).mapper, v)
    IN  IF r.ok THEN Consume(w1, Obj(w, n).Consumer, r.value) ELSE w1

maybeMapConsumer_Consume(w, n, v) ==
    LET w1 == MustCanConsume(w, n)
    IN  IF w1.panic THEN w1 ELSE maybeMapConsumer_forward(w1, n, v)

maybeMapConsumer_ConsumeS(w, n, v) == maybeMapConsumer_forward(w, n, v)

\* a bug: the value that fails the filter is still passed on
takeWhileConsumer_forward_inclusive(w, n, v) ==
    LET w1 == Log(w, [ev |-> "filter", node |-> n, value |-> v])
    IN  IF ~ApplyFilter(Obj(w, n).filter, v)
        THEN Consume([w1 EXCEPT !.heap[n].done = TRUE],
                     Obj(w, n).consumer, v)
        ELSE Consume(w1, Obj(w, n).consumer, v)

takeWhileConsumer_forward(w, n, v) ==
    LET w1 == Log(w, [ev |-> "filter", node |-> n, value |-> v])
    IN  IF ~ApplyFilter(Obj(w, n).filter, v)
        THEN [w1 EXCEPT !.heap[n].done = TRUE]
        ELSE Consume(w1, Obj(w, n).consumer, v)

takeWhileConsumer_Consume(w, n, v) ==
    LET w1 == MustCanConsume(w, n)
    IN  IF w1.panic THEN w1 ELSE takeWhileConsumer_forward(w1, n, v)

\* a bug: done follows the last value instead of latching
takeWhileConsumer_ConsumeS_unlatched(w, n, v) ==
    LET w1 == Log(w, [ev |-> "filter", node |-> n, value |-> v])
    IN  IF ~ApplyFilter(Obj(w, n).filter, v)
        THEN [w1 EXCEPT !.heap[n].done = TRUE]
        ELSE Consume([w1 EXCEPT !.heap[n].done = FALSE],
                     Obj(w, n).consumer, v)

\* a bug: the latch is not looked at before the predicate is called
takeWhileConsumer_ConsumeS_unchecked(w, n, v) ==
    takeWhileConsumer_forward(w, n, v)

takeWhileConsumer_ConsumeS(w, n, v) ==
    IF Obj(w, n).done THEN w ELSE takeWhileConsumer_forward(w, n, v)

\* a bug: the members are served last to first
RECURSIVE multiConsumer_range_reversed(_, _, _, _)
multiConsumer_range_reversed(w, consumers, i, v) ==
    IF i > Len(consumers) \/ w.panic THEN w
    ELSE multiConsumer_range_reversed(
             Consume(w, consumers[Len(consumers) + 1 - i], v),
             consumers, i + 1, v)

\* for _, consumer := range m.consumers { consumer.Consume(value) }
RECURSIVE multiConsumer_range(_, _, _, _)
multiConsumer_range(w, consumers, i, v) ==
    IF i > Len(consumers) \/ w.panic THEN w
    ELSE multiConsumer_range(Consume(w, consumers[i], v), consumers, i + 1, v)

\* a bug: the members are examined again after the value was forwarded
multiConsumer_Consume_eager(w, n, v) ==
    LET w1 == MustCanConsume(w, n)
    IN  IF w1.panic THEN w1
        ELSE multiConsumer_filterFinished(
                 multiConsumer_range(w1, Elems(w1, Obj(w1, n).consumers), 1, v),
                 n)

multiConsumer_Consume(w, n, v) ==
    LET w1 == MustCanConsume(w, n)
    IN  IF w1.panic THEN w1
        ELSE multiConsumer_range(w1, Elems(w1, Obj(w1, n).consumers), 1, v)

multiConsumer_ConsumeS(w, n, v) ==
    multiConsumer_range(w, Elems(w, Obj(w, n).consumers), 1, v)

\* pageConsumer has no Consume of its own: the embedded Consumer's is called
pageConsumer_Consume(w, n, v) == Consume(w, Obj(w, n).Consumer, v)

PageBuilder_Consume(w, n, v) == Consume(w, Obj(w, n).consumer, v)

Consume(w, n, v) ==
    LET k  == Obj(w, n).kind
        p  == w.version = "panic"
        w0 == Log(w, [ev |-> "Consume", node |-> n, value |-> v])
    IN  CASE k = "appendConsumer" -> appendConsumer_Consume(w0, n, v)
          [] k = "nil" -> Panic(w0)
          [] k = "nilConsumer" ->
                IF p THEN nilConsumer_Consume(w0, n, v)
                ELSE nilConsumer_ConsumeS(w0, n, v)
          [] k = "sliceConsumer" ->
                IF p THEN sliceConsumer_Consume(w0, n, v)
                ELSE sliceConsumer_ConsumeS(w0, n, v)
          [] k = "filterConsumer" ->
                IF p THEN filterConsumer_Consume(w0, n, v)
                ELSE filterConsumer_ConsumeS(w0, n, v)
          [] k = "filterpConsumer" ->
                IF p THEN filterpConsumer_Consume(w0, n, v)
                ELSE filterpConsumer_ConsumeS(w0, n, v)
          [] k = "mapConsumer" ->
                IF p THEN mapConsumer_Consume(w0, n, v)
                ELSE mapConsumer_ConsumeS(w0, n, v)
          [] k = "maybeMapConsumer" ->
                IF p THEN maybeMapConsumer_Consume(w0, n, v)
                ELSE maybeMapConsumer_ConsumeS(w0, n, v)
          [] k = "takeWhileConsumer" ->
                IF p THEN takeWhileConsumer_Consume(w0, n, v)
                ELSE takeWhileConsumer_ConsumeS(w0, n, v)
          [] k = "multiConsumer" ->
                IF p THEN multiConsumer_Consume(w0, n, v)
                ELSE multiConsumer_ConsumeS(w0, n, v)
          [] k = "pageConsumer" -> pageConsumer_Consume(w0, n, v)
          [] k = "PageBuilder" -> PageBuilder_Consume(w0, n, v)

-----------------------------------------------------------------------------
(* AsFunc (part_001 only) *)

\* a bug: the consumer is asked before it is given the value
AsFunc_asksFirst(w, consumer, value) ==
    [w |-> Consume(CanConsume(w, consumer).w, consumer, value),
     ret |-> CanConsume(w, consumer).ret]

\* the call AsFunc(consumer)(value): the world it leaves, what it returns
AsFunc(w, consumer, value) ==
    CanConsume(Consume(w, consumer, value), consumer)

-----------------------------------------------------------------------------
(* Finishing a page *)

\* a bug: no finalized latch, every call evaluates the slice again
pageConsumer_Finalize_unlatched(w, n) ==
    LET o  == Obj(w, n)
        h1 == [w.heap EXCEPT ![n].finalized = TRUE, ![n].Consumer = NilRef]
    IN  IF Len(w.mem[o.aSlicePtr]) = o.itemsPerPage + 1
        THEN [w EXCEPT !.heap = h1,
                       !.mem[o.morePages] = TRUE,
                       !.mem[o.aSlicePtr] = SubSeq(@, 1, o.itemsPerPage)]
        ELSE [w EXCEPT !.heap = h1, !.mem[o.morePages] = FALSE]

\* a bug: the embedded Consumer is not replaced by nilConsumer
pageConsumer_Finalize_keepsConsumer(w, n) ==
    LET o == Obj(w, n)
    IN  IF o.finalized THEN w
        ELSE LET h1 == [w.heap EXCEPT ![n].finalized = TRUE]
             IN  IF Len(w.mem[o.aSlicePtr]) = o.itemsPerPage + 1
                 THEN [w EXCEPT !.heap = h1,
                                !.mem[o.morePages] = TRUE,
                                !.mem[o.aSlicePtr] =
                                    SubSeq(@, 1, o.itemsPerPage)]
                 ELSE [w EXCEPT !.heap = h1, !.mem[o.morePages] = FALSE]

pageConsumer_Finalize(w, n) ==
    LET o == Obj(w, n)
    IN  IF o.finalized THEN w
        ELSE LET h1 == [w.heap EXCEPT ![n].finalized = TRUE,
                                      ![n].Consumer = NilRef]
             IN  IF Len(w.mem[o.aSlicePtr]) = o.itemsPerPage + 1
                 THEN [w EXCEPT !.heap = h1,
                                !.mem[o.morePages] = TRUE,
                                !.mem[o.aSlicePtr] =
                                    SubSeq(@, 1, o.itemsPerPage)]
                 ELSE [w EXCEPT !.heap = h1, !.mem[o.morePages] = FALSE]

\* a bug: a page that is exactly full reports more pages
PageBuilder_Build_inclusive(w, n) ==
    LET o      == Obj(w, n)
        more   == Len(w.mem[o.values]) >= o.valuesPerPage
        length == IF more THEN o.valuesPerPage ELSE Len(w.mem[o.values])
    IN  [values |-> SubSeq(w.mem[o.values], 1, length), morePages |-> more]

\* Build returns a copy: (values, morePages)
PageBuilder_Build(w, n) ==
    LET o      == Obj(w, n)
        more   == Len(w.mem[o.values]) > o.valuesPerPage
        length == IF more THEN o.valuesPerPage ELSE Len(w.mem[o.values])
    IN  [values |-> SubSeq(w.mem[o.values], 1, length), morePages |-> more]

\* a bug: the builder's own slice is cut to the page, as Finalize cuts the
\* caller's
PageBuilder_Built_truncating(w, n) ==
    [w EXCEPT !.mem[Obj(w, n).values] =
                  SubSeq(@, 1, Len(PageBuilder_Build(w, n).values))]

\* the world Build leaves: it assigns to no field of the builder and writes
\* to the slice it makes only
PageBuilder_Built(w, n) == w

-----------------------------------------------------------------------------
(* The consumers the model is run on.  Each is what a caller builds with   *)
(* the constructors: the heap, the cells, the references the caller holds  *)
(* and the outermost consumer.                                             *)

Built(v, h, m, hs, r, a) ==
    [variant |-> v, heap |-> h, mem |-> m, handles |-> hs, root |-> r,
     args |-> a]

NoArgs == [pageNo |-> 0, perPage |-> 0]

PageArgs(p, n) == [pageNo |-> p, perPage |-> n]

Variants == {"panic", "silent"}

Filters == {"true", "even", "zero"}

\* Page(p, n, &x, &more), src/consume.go only
PageConsumers ==
    { LET c == Page(0, p, n, "x", "more", [x |-> prior, more |-> b])
      IN  Built("panic", c.objs, c.mem, {c.ref}, c.ref, PageArgs(p, n)) :
        p \in 0..MaxPageNo, n \in 1..MaxPerPage, b \in BOOLEAN,
        prior \in {<<>>, <<1, 1, 1>>} }

\* NewPageBuilder(p, n), part_001 only
PageBuilders ==
    { LET c == NewPageBuilder(0, p, n, "values", [values |-> <<>>])
      IN  Built("silent", c.objs, c.mem, {c.ref}, c.ref, PageArgs(p, n)) :
        p \in 0..MaxPageNo, n \in 1..MaxPerPage }

\* Slice(AppendTo(&x), s, e)
Slices ==
    { Built(v, (1 :> AppendTo("x")) @@ (2 :> Slice(1, s, e)),
            [x |-> <<>>], {2}, 2, NoArgs) :
        v \in Variants, s \in -1..MaxIdx, e \in -1..(MaxIdx + 1) }

\* TakeWhile(AppendTo(&x), f)
TakeWhiles ==
    { Built(v, (1 :> AppendTo("x")) @@ (2 :> TakeWhile(1, f)),
            [x |-> <<>>], {2}, 2, NoArgs) :
        v \in Variants, f \in Filters }

\* TakeWhile(Filter(Slice(AppendTo(&x), s, e), f), g): the caller keeps every
\* stage
Chains ==
    { Built(v, (1 :> AppendTo("x")) @@ (2 :> Slice(1, s, e))
               @@ (3 :> Filter(2, f)) @@ (4 :> TakeWhile(3, "zero")),
            [x |-> <<>>], {2, 3, 4}, 4, NoArgs) :
        v \in Variants, s \in {-1, 1}, e \in 1..MaxIdx, f \in {"true", "even"} }

\* Compose(Map(Slice(AppendTo(&strs), 0, 1), strconv.Itoa),
\*         Slice(AppendTo(&ints), 0, 2), Nil()), as in TestComposeUseIndividual
Composites ==
    { LET c == Compose(6, "list", SliceOf("argv", 3),
                       [strs |-> <<>>, ints |-> <<>>, argv |-> <<3, 5, NilRef>>])
      IN  Built(v, (1 :> AppendTo("strs")) @@ (2 :> Slice(1, 0, 1))
                   @@ (3 :> Map(2, "itoa")) @@ (4 :> AppendTo("ints"))
                   @@ (5 :> Slice(4, 0, 2)) @@ c.objs,
                c.mem, {3, 5, c.ref, NilRef}, c.ref, NoArgs) :
        v \in Variants }

\* Filterp(Compose(MaybeMap(Slice(AppendTo(&strs), 0, 1), evenItoa),
\*                 Compose(TakeWhile(Filterp(AppendTo(&x), tenfoldEven), zero),
\*                         Slice(AppendTo(&y), 1, 2))), double)
Nested ==
    { LET inner == Compose(8, "inner", SliceOf("argv", 2),
                           [strs |-> <<>>, x |-> <<>>, y |-> <<>>,
                            argv |-> <<5, 7>>])
          outer == Compose(9, "outer", SliceOf("argv2", 2),
                           ("argv2" :> <<3, inner.ref>>) @@ inner.mem)
      IN  Built(v, (1 :> AppendTo("strs")) @@ (2 :> Slice(1, 0, 1))
                   @@ (3 :> MaybeMap(2, "evenItoa"))
                   @@ (4 :> AppendTo("x")) @@ (5 :> TakeWhile(10, "zero"))
                   @@ (10 :> Filterp(4, "tenfoldEven"))
                   @@ (6 :> AppendTo("y")) @@ (7 :> Slice(6, 1, 2))
                   @@ inner.objs @@ outer.objs
                   @@ (11 :> Filterp(outer.ref, "double")),
                outer.mem, {3, 5, 7, inner.ref, outer.ref, 11}, 11, NoArgs) :
        v \in Variants }

\* Filterp(Compose(Filterp(AppendTo(&x), double), AppendTo(&y)), double), as
\* in TestTrickyConsume
Tricky ==
    { LET c == Compose(4, "list", SliceOf("argv", 2),
                       [x |-> <<>>, y |-> <<>>, argv |-> <<2, 3>>])
      IN  Built(v, (1 :> AppendTo("x")) @@ (2 :> Filterp(1, "double"))
                   @@ (3 :> AppendTo("y")) @@ c.objs
                   @@ (5 :> Filterp(c.ref, "double")),
                c.mem, {c.ref, 5}, 5, NoArgs) :
        v \in Variants }

\* Slice(TakeWhile(AppendTo(&x), zero), s, e): the caller keeps the take-while
\* too
Windows ==
    { Built(v, (1 :> AppendTo("x")) @@ (2 :> TakeWhile(1, "zero"))
               @@ (3 :> Slice(2, s, e)),
            [x |-> <<>>], {2, 3}, 3, NoArgs) :
        v \in Variants, s \in 0..1, e \in 1..MaxIdx }

\* Compose(), as in TestComposeEmpty
Empties ==
    { LET c == Compose(1, "list", SliceOf("argv", 0), [argv |-> <<>>])
      IN  Built(v, c.objs, c.mem, {c.ref}, c.ref, NoArgs) :
        v \in Variants }

NoCall == [op |-> "none", node |-> NilRef, value |-> 0, ret |-> FALSE,
           panicked |-> FALSE, dead |-> FALSE, refinal |-> FALSE]

NoBuild == [values |-> <<>>, morePages |-> FALSE]

\* the second consumer of a comparison: its outermost reference, the version
\* of the package it belongs to, what its last call returned
\* and how it was built: "builder", "normalised" or "regrouped"
Twin(r, ver, how) ==
    [root |-> r, version |-> ver, how |-> how, ret |-> FALSE,
     panicked |-> FALSE, built |-> NoBuild]

NoTwin == Twin(NilRef, "panic", "none")

StartPair(c, t) ==
    /\ variant = c.variant
    /\ heap = c.heap
    /\ mem = c.mem
    /\ handles = c.handles
    /\ root = c.root
    /\ args = c.args
    /\ last = NoCall
    /\ trace = <<>>
    /\ sawFalse = {}
    /\ nops = 0
    /\ built = NoBuild
    /\ twin = t

Start(c) == StartPair(c, NoTwin)

-----------------------------------------------------------------------------
(* Calls of the caller, in any order, on any reference it holds *)

\* the references whose CanConsume returned false inside a call
Refused(t) ==
    {t[i].node : i \in {j \in 1..Len(t) :
                          t[j].ev = "CanConsume" /\ ~t[j].ret}}

\* n is a pageConsumer on which Finalize has been called
Finalized(n) ==
    /\ n \in DOMAIN heap
    /\ heap[n].kind = "pageConsumer"
    /\ heap[n].finalized

\* The step of a call: w is the world the call left.  `last` also keeps two
\* facts of the state the call was made in: whether the callee could
\* consume, and whether it was a finalized page.
Called(w, op, n, v, ret) ==
    /\ heap' = w.heap
    /\ mem' = w.mem
    /\ trace' = w.trace
    /\ last' = [op |-> op, node |-> n, value |-> v, ret |-> ret,
                panicked |-> w.panic,
                dead |-> ~CanConsume(World(heap, mem), n).ret,
                refinal |-> Finalized(n)]
    /\ sawFalse' = sawFalse \cup Refused(w.trace)
    /\ UNCHANGED <<variant, handles, root, args, twin>>

DoCanConsume(n) ==
    /\ pc = "free"
    /\ LET r == CanConsume(World(heap, mem), n)
       IN  Called(r.w, "CanConsume", n, 0, r.ret)
    /\ UNCHANGED <<nops, built, pc, input, index>>

DoConsume(n, v) ==
    /\ pc = "free"
    /\ nops < MaxOps
    /\ Called(Consume(World(heap, mem), n, v), "Consume", n, v, FALSE)
    /\ nops' = nops + 1
    /\ UNCHANGED <<built, pc, input, index>>

DoFinalize(n) ==
    /\ pc = "free"
    /\ n \in DOMAIN heap
    /\ heap[n].kind = "pageConsumer"
    /\ Called(pageConsumer_Finalize(World(heap, mem), n), "Finalize", n, 0,
              FALSE)
    /\ UNCHANGED <<nops, built, pc, input, index>>

DoBuild(n) ==
    /\ pc = "free"
    /\ n \in DOMAIN heap
    /\ heap[n].kind = "PageBuilder"
    /\ built' = PageBuilder_Build(World(heap, mem), n)
    /\ Called(PageBuilder_Built(World(heap, mem), n), "Build", n, 0, FALSE)
    /\ UNCHANGED <<nops, pc, input, index>>

Init ==
    /\ \E c \in PageConsumers \cup PageBuilders \cup Chains \cup Composites
                \cup Nested \cup Tricky \cup Empties \cup Windows : Start(c)
    /\ pc = "free"
    /\ input = <<>>
    /\ index = 0

Next ==
    \/ \E n \in handles : DoCanConsume(n)
    \/ \E n \in handles, v \in Vals : DoConsume(n, v)
    \/ \E n \in handles : DoFinalize(n)
    \/ \E n \in handles : DoBuild(n)

Spec == Init /\ [][Next]_vars

-----------------------------------------------------------------------------
(* A driver feeding the outermost consumer.  The loop is FromSlice's:      *)
(*   for index := 0; index < len(aslice) && consumer.CanConsume(); index++ *)
(*       consumer.Consume(aslice[index])                                   *)
(* After the loop the driver may push on without asking, as feedInts does  *)
(* once to see the panic, and then finishes the page, if there is one.     *)

BoundedSeq(S, n) == UNION {[1..k -> S] : k \in 0..n}

DriverCheck ==
    /\ pc = "check"
    /\ IF index < Len(input)
       THEN LET r == CanConsume(World(heap, mem), root)
            IN  /\ Called(r.w, "CanConsume", root, 0, r.ret)
                /\ pc' = IF r.ret THEN "push" ELSE "stopped"
       ELSE /\ pc' = "stopped"
            /\ UNCHANGED <<variant, heap, mem, handles, root, args, last, trace,
                           sawFalse, twin>>
    /\ UNCHANGED <<nops, built, input, index>>

DriverPush ==
    /\ pc = "push"
    /\ Called(Consume(World(heap, mem), root, input[index + 1]), "Consume",
              root, input[index + 1], FALSE)
    /\ index' = index + 1
    /\ nops' = nops + 1
    /\ pc' = "check"
    /\ UNCHANGED <<built, input>>

DriverOverpush ==
    /\ pc = "stopped"
    /\ index < Len(input)
    /\ Called(Consume(World(heap, mem), root, input[index + 1]), "Consume",
              root, input[index + 1], FALSE)
    /\ index' = index + 1
    /\ nops' = nops + 1
    /\ UNCHANGED <<built, pc, input>>

DriverFinish ==
    /\ pc = "stopped"
    /\ pc' = "done"
    /\ CASE heap[root].kind = "pageConsumer" ->
              /\ Called(pageConsumer_Finalize(World(heap, mem), root),
                        "Finalize", root, 0, FALSE)
              /\ UNCHANGED built
         [] heap[root].kind = "PageBuilder" ->
              /\ Called(PageBuilder_Built(World(heap, mem), root), "Build",
                        root, 0, FALSE)
              /\ built' = PageBuilder_Build(World(heap, mem), root)
         [] OTHER ->
              UNCHANGED <<variant, heap, mem, handles, root, args, last, trace,
                          sawFalse, built, twin>>
    /\ UNCHANGED <<nops, input, index>>

DriveInit ==
    /\ \E c \in Slices \cup PageConsumers \cup PageBuilders \cup TakeWhiles :
           Start(c)
    /\ pc = "check"
    /\ input \in BoundedSeq(Vals, MaxLen)
    /\ index = 0

DriveNext ==
    \/ DriverCheck
    \/ DriverPush
    \/ DriverOverpush
    \/ DriverFinish

SpecDrive == DriveInit /\ [][DriveNext]_vars

-----------------------------------------------------------------------------
(* Construction of a page consumer from the arguments of the caller, which *)
(* may be invalid.  A panic of the constructor leaves the caller without   *)
(* any consumer; otherwise the caller goes on with calls in any order.     *)

\* the caller's slice and flag, nothing constructed yet
Requests ==
    { Built(v, <<>>, [x |-> prior, more |-> b, values |-> <<>>], {}, NilRef,
            PageArgs(p, n)) :
        v \in Variants, p \in -1..MaxPageNo, n \in -1..MaxPerPage,
        b \in BOOLEAN, prior \in {<<>>, <<1, 1, 1>>} }

\* the step of a constructor call: c is what the constructor made
Constructed(c, op) ==
    /\ IF c.panic
       THEN /\ pc' = "panicked"
            /\ UNCHANGED <<heap, mem, handles, root>>
       ELSE /\ pc' = "free"
            /\ heap' = c.objs
            /\ mem' = c.mem
            /\ handles' = {c.ref}
            /\ root' = c.ref
    /\ last' = [NoCall EXCEPT !.op = op, !.panicked = c.panic]
    /\ UNCHANGED <<variant, args, trace, sawFalse, nops, built, input, index,
                   twin>>

DoPage ==
    /\ pc = "new"
    /\ variant = "panic"
    /\ Constructed(Page(0, args.pageNo, args.perPage, "x", "more", mem),
                   "Page")

DoNewPageBuilder ==
    /\ pc = "new"
    /\ variant = "silent"
    /\ Constructed(NewPageBuilder(0, args.pageNo, args.perPage, "values", mem),
                   "NewPageBuilder")

BuildInit ==
    /\ \E c \in Requests : Start(c)
    /\ pc = "new"
    /\ input = <<>>
    /\ index = 0

BuildNext ==
    \/ DoPage
    \/ DoNewPageBuilder
    \/ \E n \in handles : DoCanConsume(n)
    \/ \E n \in handles, v \in Vals : DoConsume(n, v)
    \/ \E n \in handles : DoFinalize(n)
    \/ \E n \in handles : DoBuild(n)

SpecBuild == BuildInit /\ [][BuildNext]_vars

-----------------------------------------------------------------------------
(* A caller that keeps the slice it passed to Compose, and stores into it  *)
(* afterwards, as TestComposeDefensiveCopy does.                           *)

\* consumers := []Consumer[int]{Slice(AppendTo(&x), 0, 1),
\*                              Slice(AppendTo(&y), 0, 2)}
\* composite := Compose(consumers...)
Copies ==
    { LET c == Compose(5, "list", SliceOf("consumers", 2),
                       [x |-> <<>>, y |-> <<>>, consumers |-> <<2, 4>>])
      IN  Built(v, (1 :> AppendTo("x")) @@ (2 :> Slice(1, 0, 1))
                   @@ (3 :> AppendTo("y")) @@ (4 :> Slice(3, 0, 2)) @@ c.objs,
                c.mem, {4, c.ref}, c.ref, NoArgs) :
        v \in Variants }

\* consumers[i] = r
DoStore(i, r) ==
    /\ pc = "free"
    /\ i \in 1..Len(mem.consumers)
    /\ mem' = [mem EXCEPT !.consumers[i] = r]
    /\ last' = [NoCall EXCEPT !.op = "Store", !.node = r, !.value = i]
    /\ trace' = <<>>
    /\ UNCHANGED <<variant, heap, handles, root, args, sawFalse, nops, built,
                   pc, input, index, twin>>

CopyInit ==
    /\ \E c \in Copies : Start(c)
    /\ pc = "free"
    /\ input = <<>>
    /\ index = 0

CopyNext ==
    \/ \E n \in handles : DoCanConsume(n)
    \/ \E n \in handles, v \in Vals : DoConsume(n, v)
    \/ \E i \in 1..MaxIdx, r \in {Null, NilRef} : DoStore(i, r)

SpecCopy == CopyInit /\ [][CopyNext]_vars

-----------------------------------------------------------------------------
(* A caller that composes a list of predicates and calls the result on any *)
(* value, any number of times.                                             *)

MaxFilters == 3

Predicates == {"true", "even", "odd"}

\* filter := ComposeFilters(filters...); filter(v)
DoComposedFilter(v) ==
    /\ pc = "filters"
    /\ LET r == CallFilter(ComposeFilters(input), v)
       IN  /\ last' = [NoCall EXCEPT !.op = "filter", !.value = v,
                                     !.ret = r.ret]
           /\ trace' = [i \in 1..Len(r.calls) |->
                          [ev |-> "filter", node |-> r.calls[i], value |-> v]]
    /\ UNCHANGED <<variant, heap, mem, handles, root, args, sawFalse, nops,
                   built, pc, input, index, twin>>

FiltersInit ==
    /\ Start(Built("panic", <<>>, <<>>, {}, NilRef, NoArgs))
    /\ pc = "filters"
    /\ input \in BoundedSeq(Predicates, MaxFilters)
    /\ index = 0

FiltersNext == \E v \in Vals : DoComposedFilter(v)

SpecFilters == FiltersInit /\ [][FiltersNext]_vars

-----------------------------------------------------------------------------
(* Two consumers given the same calls.  Every step makes one call on the   *)
(* outermost consumer and the same call on its twin; the twin may belong   *)
(* to the other version of the package.                                    *)

Paired(c, t) == [c |-> c, twin |-> t]

\* Page(p, n, &x, &more) of src/consume.go next to NewPageBuilder(p, n) of
\* part_001
PagePairs ==
    { LET a == Page(0, p, n, "x", "more",
                    [x |-> prior, more |-> b, values |-> <<>>])
          d == NewPageBuilder(10, p, n, "values", a.mem)
      IN  Paired(Built("panic", a.objs @@ d.objs, d.mem, {a.ref, d.ref},
                       a.ref, PageArgs(p, n)),
                 Twin(d.ref, "silent", "builder")) :
        p \in 0..MaxPageNo, n \in 1..MaxPerPage, b \in BOOLEAN,
        prior \in {<<>>, <<1, 1, 1>>} }

\* the bounds <<start, end>> of which one at least is negative
NegativeBounds ==
    {b \in (-2..MaxIdx) \X (-2..(MaxIdx + 1)) : b[1] < 0 \/ b[2] < 0}

\* Slice(TakeWhile(AppendTo(&x), f), s, e), s or e negative, next to
\* Slice(TakeWhile(AppendTo(&x2), f), max(s, 0), max(e, 0))
SlicePairs ==
    { Paired(Built(v, (1 :> AppendTo("x")) @@ (2 :> TakeWhile(1, f))
                      @@ (3 :> Slice(2, b[1], b[2]))
                      @@ (11 :> AppendTo("x2")) @@ (12 :> TakeWhile(11, f))
                      @@ (13 :> Slice(12, IF b[1] < 0 THEN 0 ELSE b[1],
                                      IF b[2] < 0 THEN 0 ELSE b[2])),
                   [x |-> <<>>, x2 |-> <<>>], {3, 13}, 3, NoArgs),
             Twin(13, v, "normalised")) :
        v \in Variants, f \in {"true", "zero"}, b \in NegativeBounds }

\* the world the twin's call starts in: the one the first call left
Second(w) == [w EXCEPT !.version = twin.version, !.panic = FALSE]

\* the body of a driver's loop, r being what consumer.CanConsume() gave:
\* consumer.Consume(v) if it gave true
FeedIf(r, n, v) ==
    IF r.ret /\ ~r.w.panic THEN [w |-> Consume(r.w, n, v), ret |-> TRUE]
    ELSE r

\* the call op(v) on consumer n in world w: the world it leaves, its result
Call(w, op, n, v) ==
    CASE op = "CanConsume" -> CanConsume(w, n)
      [] op = "Consume" -> [w |-> Consume(w, n, v), ret |-> FALSE]
      [] op = "Feed" -> FeedIf(CanConsume(w, n), n, v)

\* the same call on the twin, r1 being what the first call gave
TwinCall(r1, op, v) ==
    [first |-> r1, second |-> Call(Second(r1.w), op, twin.root, v)]

\* the step of the two calls r
PairCalled(r, op, v) ==
    /\ heap' = r.second.w.heap
    /\ mem' = r.second.w.mem
    /\ trace' = r.second.w.trace
    /\ last' = [op |-> op, node |-> root, value |-> v, ret |-> r.first.ret,
                panicked |-> r.first.w.panic,
                dead |-> ~CanConsume(World(heap, mem), root).ret,
                refinal |-> Finalized(root)]
    /\ twin' = [twin EXCEPT !.ret = r.second.ret,
                            !.panicked = r.second.w.panic]
    /\ sawFalse' = sawFalse \cup Refused(r.second.w.trace)
    /\ UNCHANGED <<variant, handles, root, args>>

PairCanConsume ==
    /\ pc = "pair"
    /\ PairCalled(TwinCall(Call(World(heap, mem), "CanConsume", root, 0),
                           "CanConsume", 0),
                  "CanConsume", 0)
    /\ UNCHANGED <<nops, built, pc, input, index>>

PairConsume(v) ==
    /\ pc = "pair"
    /\ nops < MaxLen
    /\ PairCalled(TwinCall(Call(World(heap, mem), "Consume", root, v),
                           "Consume", v),
                  "Consume", v)
    /\ nops' = nops + 1
    /\ UNCHANGED <<built, pc, input, index>>

\* Finalize on the page consumer, Build on the page builder
PairFinish ==
    /\ pc = "pair"
    /\ root \in DOMAIN heap
    /\ heap[root].kind = "pageConsumer"
    /\ LET w1 == pageConsumer_Finalize(World(heap, mem), root)
       IN  /\ heap' = w1.heap
           /\ mem' = w1.mem
           /\ trace' = w1.trace
           /\ last' = [op |-> "Finalize", node |-> root, value |-> 0,
                       ret |-> FALSE, panicked |-> w1.panic,
                       dead |-> ~CanConsume(World(heap, mem), root).ret,
                       refinal |-> Finalized(root)]
           /\ twin' = [twin EXCEPT
                         !.built = PageBuilder_Build(Second(w1), twin.root)]
    /\ pc' = "done"
    /\ UNCHANGED <<variant, handles, root, args, sawFalse, nops, built, input,
                   index>>

PairInit ==
    /\ \E q \in PagePairs \cup SlicePairs : StartPair(q.c, q.twin)
    /\ pc = "pair"
    /\ input = <<>>
    /\ index = 0

PairNext ==
    \/ PairCanConsume
    \/ \E v \in Vals : PairConsume(v)
    \/ PairFinish

SpecPair == PairInit /\ [][PairNext]_vars

-----------------------------------------------------------------------------
(* Joined pipelines.  Three stages are joined in the two groupings, each   *)
(* joined pipeline ends in AppendTo, and a driver that asks CanConsume     *)
(* before each push feeds the same values to the two chains.               *)

Stages ==
    {PFilter("even"), PFilterp("double"), PMap("triple"),
     PMaybeMap("halfEven"), PSlice(0, 1), PSlice(1, MaxIdx),
     PTakeWhile("zero"), Identity}

JoinArgs(a, b, c) == [a |-> a, b |-> b, c |-> c]

\* Join(Join(a, b), c).AppendTo(&x) next to Join(a, Join(b, c)).AppendTo(&x2)
JoinPair(v, a, b, c, l) ==
    StartPair(Built(v, Pipeline_AppendTo(Join(a, Join(b, c)), "x2", l.heap).heap,
                    [x |-> <<>>, x2 |-> <<>>], {l.ref}, l.ref,
                    JoinArgs(a, b, c)),
              Twin(Pipeline_AppendTo(Join(a, Join(b, c)), "x2", l.heap).ref,
                   v, "regrouped"))

\* for consumer.CanConsume() { consumer.Consume(v) } on the two chains; the
\* loop ends when CanConsume gives false
JoinFeed(v) ==
    /\ pc = "join"
    /\ nops < MaxOps
    /\ PairCalled(TwinCall(Call(World(heap, mem), "Feed", root, v), "Feed", v),
                  "Feed", v)
    /\ nops' = nops + 1
    /\ pc' = IF twin'.ret /\ last'.ret THEN "join" ELSE "done"
    /\ UNCHANGED <<built, input, index>>

JoinInit ==
    /\ \E v \in Variants, a \in Stages, b \in Stages, c \in Stages :
          JoinPair(v, a, b, c,
                   Pipeline_AppendTo(Join(Join(a, b), c), "x", <<>>))
    /\ pc = "join"
    /\ input = <<>>
    /\ index = 0

JoinNext == \E v \in Vals : JoinFeed(v)

SpecJoin == JoinInit /\ [][JoinNext]_vars

-----------------------------------------------------------------------------
(* One pipeline run twice.  pipeline.AppendTo(&x) is built first and fed   *)
(* by a driver; at any moment pipeline.AppendTo(&y) is built from the same *)
(* pipeline value, and from then on a driver feeds either chain.  input    *)
(* keeps the values offered to the second chain.                           *)

\* the stages whose consumer keeps a window index or a latch
Stateful == {p \in Stages : p.op \in {"PSlice", "PTakeWhile"}}

Pipelines == {Join(a, b) : a \in Stages, b \in Stateful}

PipelineArgs(p) == [pipeline |-> p]

\* pipeline.AppendTo(&x)
FirstRun(v, p, r) ==
    Start(Built(v, r.heap, [x |-> <<>>, y |-> <<>>], {r.ref}, r.ref,
                PipelineArgs(p)))

\* consumer.CanConsume() and, if true, consumer.Consume(v), on the chain of &x
PipeFeedFirst(v) ==
    /\ pc \in {"first", "second"}
    /\ nops < MaxOps
    /\ LET r == Call(World(heap, mem), "Feed", root, v)
       IN  Called(r.w, "Feed", root, v, r.ret)
    /\ nops' = nops + 1
    /\ UNCHANGED <<built, pc, input, index>>

\* pipeline.AppendTo(&y)
PipeRunAgain ==
    /\ pc = "first"
    /\ LET r == Pipeline_AppendTo(args.pipeline, "y", heap)
       IN  /\ heap' = r.heap
           /\ handles' = handles \cup {r.ref}
           /\ twin' = Twin(r.ref, variant, "rerun")
           /\ last' = [NoCall EXCEPT !.op = "AppendTo", !.node = r.ref]
    /\ pc' = "second"
    /\ UNCHANGED <<variant, mem, root, args, trace, sawFalse, nops, built,
                   input, index>>

\* consumer.CanConsume() and, if true, consumer.Consume(v), on the chain of &y
PipeFeedSecond(v) ==
    /\ pc = "second"
    /\ Len(input) < MaxOps
    /\ LET r == Call(World(heap, mem), "Feed", twin.root, v)
       IN  Called(r.w, "Feed", twin.root, v, r.ret)
    /\ input' = Append(input, v)
    /\ UNCHANGED <<nops, built, pc, index>>

PipeInit ==
    /\ \E v \in Variants, p \in Pipelines :
          FirstRun(v, p, Pipeline_AppendTo(p, "x", <<>>))
    /\ pc = "first"
    /\ input = <<>>
    /\ index = 0

PipeNext ==
    \/ \E v \in Vals : PipeFeedFirst(v)
    \/ PipeRunAgain
    \/ \E v \in Vals : PipeFeedSecond(v)

SpecPipe == PipeInit /\ [][PipeNext]_vars

-----------------------------------------------------------------------------
(* A page builder whose caller asks for the page at any moment: Consume,   *)
(* CanConsume and Build in any order.  input keeps the Consume and Build   *)
(* calls made, in order.                                                   *)

ConsumeCall(v) == [op |-> "Consume", value |-> v]

BuildCall == [op |-> "Build", value |-> 0]

BuilderCanConsume ==
    /\ pc = "builder"
    /\ LET r == CanConsume(World(heap, mem), root)
       IN  Called(r.w, "CanConsume", root, 0, r.ret)
    /\ UNCHANGED <<nops, built, pc, input, index>>

BuilderConsume(v) ==
    /\ pc = "builder"
    /\ Len(input) < MaxLen
    /\ Called(Consume(World(heap, mem), root, v), "Consume", root, v, FALSE)
    /\ nops' = nops + 1
    /\ input' = Append(input, ConsumeCall(v))
    /\ UNCHANGED <<built, pc, index>>

BuilderBuild ==
    /\ pc = "builder"
    /\ Len(input) < MaxLen
    /\ built' = PageBuilder_Build(World(heap, mem), root)
    /\ Called(PageBuilder_Built(World(heap, mem), root), "Build", root, 0,
              FALSE)
    /\ input' = Append(input, BuildCall)
    /\ UNCHANGED <<nops, pc, index>>

BuilderInit ==
    /\ \E c \in PageBuilders : Start(c)
    /\ pc = "builder"
    /\ input = <<>>
    /\ index = 0

BuilderNext ==
    \/ BuilderCanConsume
    \/ \E v \in Vals : BuilderConsume(v)
    \/ BuilderBuild

SpecBuilder == BuilderInit /\ [][BuilderNext]_vars

-----------------------------------------------------------------------------
(* A page builder fed from a source that never ends, by the loop of        *)
(* feedInts:  for consumer.CanConsume() { consumer.Consume(v) }            *)
(* index counts the values pushed.  The loop is sequential code: it takes  *)
(* its next step whenever it has one.  After the loop the caller may ask   *)
(* CanConsume again and build the page, as TestPageBuilder_PageZero does.  *)

\* more values than any page of the bounds needs
MaxFeed == (MaxPageNo + 1) * MaxPerPage + 2

FeedCheck ==
    /\ pc = "check"
    /\ LET r == CanConsume(World(heap, mem), root)
       IN  /\ Called(r.w, "CanConsume", root, 0, r.ret)
           /\ pc' = IF r.ret THEN "push" ELSE "stopped"
    /\ UNCHANGED <<nops, built, input, index>>

FeedPush(v) ==
    /\ pc = "push"
    /\ index < MaxFeed
    /\ Called(Consume(World(heap, mem), root, v), "Consume", root, v, FALSE)
    /\ index' = index + 1
    /\ nops' = nops + 1
    /\ pc' = "check"
    /\ UNCHANGED <<built, input>>

FeedAskAgain ==
    /\ pc = "stopped"
    /\ LET r == CanConsume(World(heap, mem), root)
       IN  Called(r.w, "CanConsume", root, 0, r.ret)
    /\ UNCHANGED <<nops, built, pc, input, index>>

FeedBuild ==
    /\ pc = "stopped"
    /\ built' = PageBuilder_Build(World(heap, mem), root)
    /\ Called(PageBuilder_Built(World(heap, mem), root), "Build", root, 0,
              FALSE)
    /\ UNCHANGED <<nops, pc, input, index>>

FeedInit ==
    /\ \E c \in PageBuilders : Start(c)
    /\ pc = "check"
    /\ input = <<>>
    /\ index = 0

FeedNext ==
    \/ FeedCheck
    \/ \E v \in Vals : FeedPush(v)
    \/ FeedAskAgain
    \/ FeedBuild

SpecFeed == FeedInit /\ [][FeedNext]_vars /\ WF_vars(FeedNext)

-----------------------------------------------------------------------------
(* The drivers FromSlice, FromPtrSlice, FromIntGenerator and FromGenerator. *)
(* input is the source: the slice, or the values the generator returns     *)
(* one per call.  An item with ok false is a nil pointer of a []*T, the    *)
(* negative number of an int generator, the false of a generator; a        *)
(* generator whose values are used up returns that item.  index is the     *)
(* loop index of the slice drivers and the number of calls of the          *)
(* generator made by the generator drivers.                                *)

Drivers == {"FromSlice", "FromPtrSlice", "FromIntGenerator", "FromGenerator"}

Generators == {"FromIntGenerator", "FromGenerator"}

DriverArgs(d) == [driver |-> d]

Item(v) == [value |-> v, ok |-> TRUE]

NoItem == [value |-> 0, ok |-> FALSE]

\* what the int generator returns for an item
IntOf(item) == IF item.ok THEN item.value ELSE 0 - 1

\* the sources driver d can be given: a []T holds values only
Sources(d) ==
    IF d = "FromSlice" THEN BoundedSeq({Item(v) : v \in Vals}, MaxOps)
    ELSE BoundedSeq({Item(v) : v \in Vals} \cup {NoItem}, MaxOps)

\* generator()
Generate(src, calls) == IF calls < Len(src) THEN src[calls + 1] ELSE NoItem

\* the consumers the drivers feed
Fed ==
    {c \in Slices : c.heap[2].start = 0 /\ c.heap[2].end >= 0}
        \cup TakeWhiles

FromStart(c, d) == Start([c EXCEPT !.args = DriverArgs(d)])

\* a bug: the loop goes on whatever CanConsume returned
AfterCheck_ignored(d, ret) ==
    IF d \in Generators THEN "pull" ELSE "push"

\* where the loop is after the consumer.CanConsume() of its condition
AfterCheck(d, ret) ==
    IF ~ret THEN "stopped"
    ELSE IF d \in Generators THEN "pull" ELSE "push"

\* the loop condition
FromCheck ==
    /\ pc = "check"
    /\ IF args.driver \in Generators \/ index < Len(input)
       THEN LET r == CanConsume(World(heap, mem), root)
            IN  /\ Called(r.w, "CanConsume", root, 0, r.ret)
                /\ pc' = AfterCheck(args.driver, r.ret)
       ELSE /\ pc' = "stopped"
            /\ UNCHANGED <<variant, heap, mem, handles, root, args, last, trace,
                           sawFalse, twin>>
    /\ UNCHANGED <<nops, built, input, index>>

\* value := generator(), and the break
FromPull ==
    /\ pc = "pull"
    /\ index' = index + 1
    /\ pc' = IF args.driver = "FromIntGenerator"
             THEN IF IntOf(Generate(input, index)) < 0 THEN "stopped"
                  ELSE "push"
             ELSE IF ~Generate(input, index).ok THEN "stopped" ELSE "push"
    /\ UNCHANGED <<variant, heap, mem, handles, root, args, last, trace,
                   sawFalse, twin, nops, built, input>>

\* the continue of FromPtrSlice on a nil pointer, with the index++
FromSkip ==
    /\ pc = "push"
    /\ args.driver = "FromPtrSlice"
    /\ ~input[index + 1].ok
    /\ index' = index + 1
    /\ pc' = "check"
    /\ UNCHANGED <<variant, heap, mem, handles, root, args, last, trace,
                   sawFalse, twin, nops, built, input>>

\* consumer.Consume(aslice[index]) with the index++, consumer.Consume(value)
FromPush ==
    /\ pc = "push"
    /\ IF args.driver \in Generators
       THEN /\ Called(Consume(World(heap, mem), root, input[index].value),
                      "Consume", root, input[index].value, FALSE)
            /\ index' = index
       ELSE /\ input[index + 1].ok
            /\ Called(Consume(World(heap, mem), root, input[index + 1].value),
                      "Consume", root, input[index + 1].value, FALSE)
            /\ index' = index + 1
    /\ nops' = nops + 1
    /\ pc' = "check"
    /\ UNCHANGED <<built, input>>

FromInit ==
    /\ \E c \in Fed, d \in Drivers :
          /\ FromStart(c, d)
          /\ input \in Sources(d)
    /\ pc = "check"
    /\ index = 0

FromNext ==
    \/ FromCheck
    \/ FromPull
    \/ FromSkip
    \/ FromPush

SpecFrom == FromInit /\ [][FromNext]_vars

-----------------------------------------------------------------------------
(* An iterator that calls the function of AsFunc on each value of input    *)
(* and stops at the first false, as the Ascend of a btree does.            *)

IterateCall ==
    /\ pc = "iterate"
    /\ index < Len(input)
    /\ Called(AsFunc(World(heap, mem), root, input[index + 1]).w, "AsFunc",
              root, input[index + 1],
              AsFunc(World(heap, mem), root, input[index + 1]).ret)
    /\ index' = index + 1
    /\ pc' = IF last'.ret THEN "iterate" ELSE "stopped"
    /\ UNCHANGED <<nops, built, input>>

IterateInit ==
    /\ \E c \in {f \in Fed : f.variant = "silent"} : Start(c)
    /\ pc = "iterate"
    /\ input \in BoundedSeq(Vals, MaxLen)
    /\ index = 0

IterateNext == IterateCall

SpecIterate == IterateInit /\ [][IterateNext]_vars

-----------------------------------------------------------------------------
(* A caller that hands Page a slice it has used before, feeds the page     *)
(* consumer as the driver above does and finalizes it.  `before` is the    *)
(* caller's own copy of what the slice held when Page was called.          *)

\* the caller's slice, its copy and its flag, nothing constructed yet
PageRequests ==
    { Built("panic", <<>>, [x |-> prior, more |-> b, before |-> prior], {},
            NilRef, PageArgs(p, n)) :
        p \in 0..MaxPageNo, n \in 1..MaxPerPage, b \in BOOLEAN,
        prior \in {<<>>, <<1>>, <<1, 1, 1>>} }

\* consumer := Page(p, n, &x, &more)
PageCall ==
    /\ pc = "new"
    /\ LET c == Page(0, args.pageNo, args.perPage, "x", "more", mem)
       IN  /\ heap' = c.objs
           /\ mem' = c.mem
           /\ handles' = {c.ref}
           /\ root' = c.ref
    /\ pc' = "check"
    /\ last' = [NoCall EXCEPT !.op = "Page"]
    /\ UNCHANGED <<variant, args, trace, sawFalse, nops, built, input, index,
                   twin>>

PageInit ==
    /\ \E c \in PageRequests : Start(c)
    /\ pc = "new"
    /\ input \in BoundedSeq(Vals, MaxLen)
    /\ index = 0

PageNext ==
    \/ PageCall
    \/ DriverCheck
    \/ DriverPush
    \/ DriverOverpush
    \/ DriverFinish

SpecPage == PageInit /\ [][PageNext]_vars

-----------------------------------------------------------------------------
(* Properties *)

Now == World(heap, mem)

Kind(n) == Obj(Now, n).kind

Max0(i) == IF i < 0 THEN 0 ELSE i

Min(i, j) == IF i < j THEN i ELSE j

\* the elements of s at the zero-based positions lo..hi-1
Window(s, lo, hi) == IF lo >= hi THEN <<>> ELSE SubSeq(s, lo + 1, hi)

Range(s) == {s[i] : i \in 1..Len(s)}

Multis == {n \in DOMAIN heap : heap[n].kind = "multiConsumer"}

\* the internal list of composite n
List(n) == Elems(Now, heap[n].consumers)

\* C1: once CanConsume has returned false for a consumer (asked by the caller
\* or by an enclosing consumer), it returns false in every later state,
\* whatever calls were made in between.
C1_OnceFalseAlwaysFalse ==
    \A n \in sawFalse : ~CanConsume(Now, n).ret

\* a composite that has reported false is pushed to again by the caller
C1_Witness ==
    \E n \in sawFalse :
        /\ Kind(n) = "multiConsumer"
        /\ last.op = "Consume"
        /\ last.node = n
        /\ nops > 1

\* C4: the CanConsume of a composite returns false exactly when the
\* CanConsume of every member still in its list returns false.
C4_CompositeFalseIffAllMembersFalse ==
    \A n \in Multis :
        CanConsume(Now, n).ret =
            (\E i \in 1..Len(List(n)) : CanConsume(Now, List(n)[i]).ret)

\* the caller has just been told false by a composite whose members took
\* values before
C4_Witness ==
    /\ last.op = "CanConsume"
    /\ Kind(last.node) = "multiConsumer"
    /\ ~last.ret
    /\ List(last.node) = <<>>
    /\ Len(mem.strs) > 0
    /\ Len(mem.ints) > 0

\* the Consume calls a call made on the consumers in S: <<consumer, value>>
Deliveries(t, S) ==
    LET sel == SelectSeq(t, LAMBDA e : e.ev = "Consume" /\ e.node \in S)
    IN  [i \in 1..Len(sel) |-> <<sel[i].node, sel[i].value>>]

\* the members of composite n that can consume, in the order of its list
LiveMembers(n) ==
    SelectSeq(List(n), LAMBDA m : CanConsume(Now, m).ret)

\* C5: a Consume on a composite that can consume reaches every member that
\* can consume at that moment exactly once, with the value pushed, in the
\* order of the list, and does not panic.
C5_CompositeDeliversToLiveMembersInOrder ==
    [][(/\ last'.op = "Consume"
        /\ last'.node \in Multis
        /\ CanConsume(Now, last'.node).ret)
       => (/\ ~last'.panicked
           /\ Deliveries(trace', Range(LiveMembers(last'.node)))
                = [i \in 1..Len(LiveMembers(last'.node)) |->
                     <<LiveMembers(last'.node)[i], last'.value>>])]_vars

\* a composite has consumed a value after one of its members was exhausted:
\* the call found that member refusing and delivered to the other one
C5_Witness ==
    /\ variant = "panic"
    /\ last.op = "Consume"
    /\ Kind(last.node) = "multiConsumer"
    /\ ~last.dead
    /\ ~last.panicked
    /\ \E m \in Refused(trace) : m # NilRef
    /\ Len(Deliveries(trace, Range(List(last.node)))) = 1

\* the predicate and mapper invocations of a call
Invocations(t) == SelectSeq(t, LAMBDA e : e.ev \in {"filter", "mapper"})

\* the Consume calls a call on n passed on to other consumers; a
\* pageConsumer's own Consume is its embedded Consumer's
Forwards(t, n) ==
    SelectSeq(t, LAMBDA e :
        /\ e.ev = "Consume"
        /\ e.node # n
        /\ ~(Kind(n) = "pageConsumer" /\ e.node = heap[n].Consumer))

\* the window index of every slice and the latch of every take-while
Indexes(h) ==
    [n \in {m \in DOMAIN h : h[m].kind = "sliceConsumer"} |-> h[n].idx]

\* the terminal sequences: the slices the append consumers write to
Terminals(h, m) ==
    [c \in {h[n].slicePtr : n \in {k \in DOMAIN h :
                                      h[k].kind = "appendConsumer"}} |-> m[c]]

Latches(h) ==
    [n \in {m \in DOMAIN h : h[m].kind = "takeWhileConsumer"} |-> h[n].done]

\* C7: in src/consume.go a Consume made while the callee's CanConsume is false
\* panics, invokes no predicate or mapper, forwards nothing and changes no
\* terminal sequence, window index or latch.
C7_OverpushPanicsBeforeAnyEffect ==
    [][(/\ variant = "panic"
        /\ last'.op = "Consume"
        /\ ~CanConsume(Now, last'.node).ret)
       => (/\ last'.panicked
           /\ Invocations(trace') = <<>>
           /\ Forwards(trace', last'.node) = <<>>
           /\ Terminals(heap', mem') = Terminals(heap, mem)
           /\ Indexes(heap') = Indexes(heap)
           /\ Latches(heap') = Latches(heap))]_vars

\* a take-while that has latched after forwarding a value was pushed to again
C7_Witness ==
    /\ variant = "panic"
    /\ last.op = "Consume"
    /\ last.dead
    /\ last.panicked
    /\ Kind(last.node) = "takeWhileConsumer"
    /\ heap[last.node].done
    /\ \E c \in DOMAIN Terminals(heap, mem) : Len(mem[c]) > 0

\* C8: in part_001 a Consume made while the callee's CanConsume is false
\* appends nothing to any terminal sequence.
C8_SilentOverpushAppendsNothing ==
    [][(/\ variant = "silent"
        /\ last'.op = "Consume"
        /\ ~CanConsume(Now, last'.node).ret)
       => Terminals(heap', mem') = Terminals(heap, mem)]_vars

\* an exhausted slice that had forwarded a value was pushed to again
C8_Witness ==
    /\ variant = "silent"
    /\ last.op = "Consume"
    /\ last.dead
    /\ Kind(last.node) = "sliceConsumer"
    /\ heap[last.node].idx >= heap[last.node].end
    /\ heap[last.node].end > 0
    /\ \E c \in DOMAIN Terminals(heap, mem) : Len(mem[c]) > 0

\* C9: a Finalize on a page already finalized changes neither the stored
\* values nor the morePages flag.
C9_FinalizeIdempotent ==
    [][(last'.op = "Finalize" /\ Finalized(last'.node)) => mem' = mem]_vars

\* Finalize was called again on a page trimmed to itemsPerPage values
C9_Witness ==
    /\ last.op = "Finalize"
    /\ last.refinal
    /\ mem.more
    /\ Len(mem.x) = heap[last.node].itemsPerPage

\* C10: once a page is finalized its CanConsume returns false, its Consume
\* panics, and neither call changes the stored values.
C10_FinalizedPageRefuses ==
    [][(last'.op \in {"CanConsume", "Consume"} /\ Finalized(last'.node))
       => (/\ last'.op = "CanConsume" => ~last'.ret
           /\ last'.op = "Consume" => last'.panicked
           /\ mem' = mem)]_vars

\* a page finalized before it was full was pushed to
C10_Witness ==
    /\ last.op = "Consume"
    /\ last.refinal
    /\ last.panicked
    /\ Len(mem.x) < heap[last.node].itemsPerPage

-----------------------------------------------------------------------------
(* Properties of a driven consumer *)

Stopped == pc \in {"stopped", "done"}

\* C2: when the driver has stopped feeding Slice(AppendTo(&x), s, e), x holds
\* the input values at the zero-based positions s..e-1, negative bounds taken
\* as 0 and the window cut at the number of values, in the order of the input.
C2_SliceForwardsWindow ==
    (Stopped /\ Kind(root) = "sliceConsumer")
    => mem.x = Window(input, Max0(heap[root].start),
                      Min(Max0(heap[root].end), Len(input)))

\* the driver fed a slice whose window lies inside the input and leaves out
\* values on both sides
C2_Witness ==
    /\ pc = "done"
    /\ Kind(root) = "sliceConsumer"
    /\ 0 < heap[root].start
    /\ heap[root].start + 1 < heap[root].end
    /\ heap[root].end < Len(input)
    /\ Len(mem.x) = heap[root].end - heap[root].start
    /\ mem.x[1] # mem.x[2]

PageValues == IF Kind(root) = "pageConsumer" THEN mem.x ELSE built.values

PageMore == IF Kind(root) = "pageConsumer" THEN mem.more ELSE built.morePages

\* C3: after Finalize (Page) or Build (PageBuilder), the page holds the input
\* values at the positions [p*n, min((p+1)*n, M)) and morePages is true
\* exactly when M > (p+1)*n, M being the number of values offered.
C3_PageHoldsItsWindow ==
    (pc = "done" /\ Kind(root) \in {"pageConsumer", "PageBuilder"})
    => /\ PageValues =
            Window(input, args.pageNo * args.perPage,
                   Min((args.pageNo + 1) * args.perPage, Len(input)))
       /\ PageMore = (Len(input) > (args.pageNo + 1) * args.perPage)

\* a full page after the first one, with more pages behind it
C3_Witness ==
    /\ pc = "done"
    /\ Kind(root) = "pageConsumer"
    /\ args.pageNo > 0
    /\ args.perPage > 1
    /\ mem.more
    /\ Len(mem.x) = args.perPage
    /\ mem.x[1] # mem.x[2]

\* the values of s before the first one that fails filter f
RECURSIVE Prefix(_, _)
Prefix(f, s) ==
    IF s = <<>> \/ ~ApplyFilter(f, Head(s)) THEN <<>>
    ELSE <<Head(s)>> \o Prefix(f, Tail(s))

\* C6: at every moment TakeWhile(AppendTo(&x), f) has passed on exactly the
\* values pushed so far that precede the first one failing f, also when the
\* driver pushes on after the failure with values that pass f.
C6_TakeWhileForwardsPrefix ==
    Kind(root) = "takeWhileConsumer"
    => mem.x = Prefix(heap[root].filter, SubSeq(input, 1, index))

\* a value passing the filter was pushed after the latch and was dropped
C6_Witness ==
    /\ Kind(root) = "takeWhileConsumer"
    /\ pc = "stopped"
    /\ last.op = "Consume"
    /\ last.dead
    /\ ApplyFilter(heap[root].filter, last.value)
    /\ heap[root].done
    /\ Len(mem.x) > 0
    /\ index > Len(mem.x) + 1

\* the outermost consumer is a Page and its twin a PageBuilder
PagePair == twin.how = "builder"

\* C11: given the same calls, Page(p, n, &x, &more) of src/consume.go and
\* NewPageBuilder(p, n) of part_001 return the same CanConsume results and
\* hold the same values after every call; Finalize leaves in x and more what
\* Build returns as values and morePages.
C11_PageAndBuilderAgree ==
    PagePair
    => /\ last.op = "CanConsume" => last.ret = twin.ret
       /\ pc = "pair" => mem.x = mem.values
       /\ pc = "done" => /\ mem.x = twin.built.values
                         /\ mem.more = twin.built.morePages

\* both have finished a full second page with more pages behind it
C11_Witness ==
    /\ PagePair
    /\ pc = "done"
    /\ args.pageNo = 1
    /\ args.perPage = 2
    /\ twin.built.morePages
    /\ Len(twin.built.values) = 2
    /\ mem.x[1] # mem.x[2]

\* C12: Page and NewPageBuilder called with a negative page number or with a
\* page size of zero or less panic: the caller holds no consumer, nothing was
\* allocated and no value is ever consumed.
C12_InvalidPageArgumentsPanic ==
    (pc # "new" /\ last.op \in {"Page", "NewPageBuilder"}
        /\ (args.pageNo < 0 \/ args.perPage <= 0))
    => /\ pc = "panicked"
       /\ last.panicked
       /\ handles = {}
       /\ DOMAIN heap = {}
       /\ root = NilRef
       /\ nops = 0

\* Page was called with a valid page number and a page size of zero
C12_Witness ==
    /\ pc = "panicked"
    /\ last.op = "Page"
    /\ args.pageNo = 1
    /\ args.perPage = 0

\* the CanConsume calls a call made on the consumers in S
Queries(t, S) == SelectSeq(t, LAMBDA e : e.ev = "CanConsume" /\ e.node \in S)

\* C13 as stated: a Consume on a composite of src/consume.go queries no
\* member's CanConsume and leaves the internal list as it was.
C13_ConsumeLeavesListAlone ==
    [][\A n \in Multis :
         (variant = "panic" /\ last'.op = "Consume" /\ last'.node = n)
         => /\ List(n)' = List(n)
            /\ Queries(trace', Range(List(n))) = <<>>]_vars

\* C13: the internal list of a composite of src/consume.go changes only in
\* a call that runs the composite's CanConsume, which its Consume does
\* (through MustCanConsume) before forwarding: a Consume that does not panic
\* leaves in the list exactly the members that could consume before the
\* value was forwarded, those the value has exhausted included.
C13_ListCompactedOnlyByCanConsume ==
    [][\A n \in Multis :
         variant = "panic"
         => /\ List(n)' # List(n) => Queries(trace', {n}) # <<>>
            /\ (last'.op = "Consume" /\ last'.node = n)
               => /\ Queries(trace', {n}) # <<>>
                  /\ ~last'.panicked => List(n)' = LiveMembers(n)]_vars

\* a Consume on a composite has removed a member that refused and has kept
\* a member that the value exhausted
C13_Witness ==
    /\ variant = "panic"
    /\ last.op = "Consume"
    /\ Kind(last.node) = "multiConsumer"
    /\ ~last.panicked
    /\ \E m \in Refused(trace) : \A i \in 1..Len(List(last.node)) :
           List(last.node)[i] # m
    /\ \E i \in 1..Len(List(last.node)) :
           ~CanConsume(Now, List(last.node)[i]).ret

\* C20: a store into the slice the caller passed to Compose changes neither
\* the internal list of the composite nor what its CanConsume returns, and a
\* later Consume on the composite reaches the members of its own list that
\* can consume, whatever the caller has stored.
C20_ComposeCopiesItsArguments ==
    [][\A n \in Multis :
         /\ last'.op = "Store"
            => /\ List(n)' = List(n)
               /\ CanConsume(World(heap', mem'), n).ret
                    = CanConsume(World(heap, mem), n).ret
         /\ (last'.op = "Consume" /\ last'.node = n
               /\ CanConsume(Now, n).ret)
            => /\ ~last'.panicked
               /\ Deliveries(trace', Range(LiveMembers(n)))
                    = [i \in 1..Len(LiveMembers(n)) |->
                         <<LiveMembers(n)[i], last'.value>>]]_vars

\* the caller cleared both entries of its slice; the only Consume made on
\* the composite came after that and reached both members
C20_Witness ==
    /\ "consumers" \in DOMAIN mem
    /\ mem.consumers = <<Null, Null>>
    /\ last.op = "Consume"
    /\ Kind(last.node) = "multiConsumer"
    /\ nops = 1
    /\ Len(mem.x) = 1
    /\ Len(mem.y) = 1

\* the position of the first predicate of fs that is false for v, or the
\* length of fs when there is none
RECURSIVE FirstFalse(_, _, _)
FirstFalse(fs, v, i) ==
    IF i >= Len(fs) \/ ~ApplyFilter(fs[i], v) THEN i
    ELSE FirstFalse(fs, v, i + 1)

\* C16: the predicate ComposeFilters(f1..fk) returns for a value the
\* conjunction of the fi (true for k = 0), and calls f1, f2, ... in that
\* order up to and including the first one that returns false, and none
\* after it.
C16_ComposeFiltersShortCircuits ==
    last.op = "filter"
    => /\ last.ret = (\A i \in 1..Len(input) : ApplyFilter(input[i], last.value))
       /\ Len(trace) = (IF input = <<>> THEN 0
                        ELSE FirstFalse(input, last.value, 1))
       /\ \A i \in 1..Len(trace) : trace[i].node = i

\* three predicates were composed and the second one returned false
C16_Witness ==
    /\ last.op = "filter"
    /\ Len(input) = 3
    /\ ApplyFilter(input[1], last.value)
    /\ ~ApplyFilter(input[2], last.value)
    /\ ApplyFilter(input[3], last.value)
    /\ Len(trace) = 2
    /\ ~last.ret

\* C17: Slice(AppendTo(&x), start, end) with end <= start, negative bounds
\* taken as zero, never passes a value on: x stays empty and no call reaches
\* the inner consumer's Consume, whatever the driver pushes, the pushes made
\* after CanConsume returned false included.
C17_EmptyWindowForwardsNothing ==
    (/\ Kind(root) = "sliceConsumer"
     /\ Max0(heap[root].end) <= Max0(heap[root].start))
    => /\ mem.x = <<>>
       /\ Deliveries(trace, {heap[root].consumer}) = <<>>

\* a slice whose window is empty but not at zero took two values while it
\* could consume and one more after it could not
C17_Witness ==
    /\ Kind(root) = "sliceConsumer"
    /\ heap[root].start = heap[root].end
    /\ heap[root].end = 2
    /\ last.op = "Consume"
    /\ last.dead
    /\ index = 3
    /\ mem.x = <<>>

\* the values a call passed to consumer n
Received(t, n) ==
    LET d == Deliveries(t, {n}) IN [i \in 1..Len(d) |-> d[i][2]]

\* the twin is the slice with the negative bounds at zero
SlicePair == twin.how = "normalised"

\* C18: given the same calls, Slice(inner, s, e) with a negative s or e and
\* Slice(inner, max(s,0), max(e,0)) return the same CanConsume results,
\* panic on the same calls, pass the same values to their inner consumers in
\* every call and leave the same values in the terminal sequences.
C18_NegativeBoundsAreZero ==
    SlicePair
    => /\ last.op = "CanConsume" => last.ret = twin.ret
       /\ last.panicked = twin.panicked
       /\ Received(trace, heap[root].consumer)
            = Received(trace, heap[twin.root].consumer)
       /\ mem.x = mem.x2
       /\ heap[root].idx = heap[twin.root].idx

\* a slice with a negative start has passed on two different values and
\* then refused, as its twin starting at zero did
C18_Witness ==
    /\ SlicePair
    /\ heap[root].start < 0
    /\ heap[root].end = 2
    /\ last.op = "CanConsume"
    /\ ~last.ret
    /\ Len(mem.x2) = 2
    /\ mem.x[1] # mem.x[2]

\* the places of a call's trace where a Filterp predicate was called and
\* returned true
Mutations(t) ==
    {i \in 1..Len(t) :
        /\ t[i].ev = "filter"
        /\ Kind(t[i].node) = "filterpConsumer"
        /\ ApplyFilterp(heap[t[i].node].filter, t[i].value).ok}

\* C19: when the predicate of a Filterp returns true, the next thing that
\* happens is the Consume of its inner consumer with the value as the
\* predicate left it; the members of a composite all receive the value that
\* was pushed into the composite, whatever a Filterp among them did to it,
\* and the value the caller passed is the one the call is made with.
C19_FilterpMutationStaysDownstream ==
    [][/\ \A i \in Mutations(trace') :
            /\ i < Len(trace')
            /\ trace'[i + 1] =
                 [ev |-> "Consume", node |-> heap[trace'[i].node].Consumer,
                  value |-> ApplyFilterp(heap[trace'[i].node].filter,
                                         trace'[i].value).value]
       /\ \A n \in Multis : \A m \in Range(List(n)) :
            Received(trace', n) # <<>>
            => \A k \in 1..Len(Received(trace', m)) :
                   Received(trace', m)[k] = Received(trace', n)[1]
       /\ last'.op = "Consume"
            => /\ trace'[1].value = last'.value
               /\ Received(trace', last'.node) = <<last'.value>>]_vars

\* the value 1 went through Filterp(Compose(Filterp(AppendTo(&x), double),
\* AppendTo(&y)), double): y has it doubled once, x doubled twice
C19_Witness ==
    /\ last.op = "Consume"
    /\ Kind(last.node) = "filterpConsumer"
    /\ Kind(heap[last.node].Consumer) = "multiConsumer"
    /\ last.value = 1
    /\ nops = 1
    /\ mem.y = <<2>>
    /\ mem.x = <<4>>

\* the two groupings of three joined pipelines are compared
JoinedPair == twin.how = "regrouped"

\* C14: Join is associative in behaviour: fed the same values by a driver
\* that asks CanConsume before each push, Join(Join(a, b), c) and
\* Join(a, Join(b, c)) give the same CanConsume results, panic alike, and
\* send the same sequence of values to the terminal consumer.
C14_JoinIsAssociative ==
    JoinedPair =>
        /\ twin.ret = last.ret
        /\ twin.panicked = last.panicked
        /\ mem.x2 = mem.x

\* three different stages, none the identity, have passed a value on and
\* then refused the next
C14_Witness ==
    /\ JoinedPair
    /\ last.op = "Feed"
    /\ ~last.ret
    /\ Len(mem.x) > 0
    /\ Cardinality({args.a.op, args.b.op, args.c.op} \ {"Identity"}) = 3

\* the consumer an object forwards to
InnerOf(o) ==
    CASE o.kind \in {"sliceConsumer", "takeWhileConsumer"} -> o.consumer
      [] o.kind \in {"filterConsumer", "filterpConsumer", "mapConsumer",
                     "maybeMapConsumer"} -> o.Consumer
      [] OTHER -> NilRef

\* the objects of the chain that starts at n
RECURSIVE ChainOf(_, _)
ChainOf(h, n) ==
    IF n \notin DOMAIN h THEN {} ELSE {n} \cup ChainOf(h, InnerOf(h[n]))

\* a driver's loop body for each of vs[i], ... on consumer n, r being the
\* world and the result before
RECURSIVE FeedAll(_, _, _, _)
FeedAll(r, n, vs, i) ==
    IF i > Len(vs) THEN r
    ELSE FeedAll(Call(WorldOf(variant, r.w.heap, r.w.mem), "Feed", n, vs[i]),
                 n, vs, i + 1)

\* the chain the pipeline builds where no chain was built before
FirstChain == Pipeline_AppendTo(args.pipeline, "y", <<>>)

\* that chain after the values offered to the second chain
Reference ==
    FeedAll([w |-> WorldOf(variant, FirstChain.heap, [x |-> <<>>, y |-> <<>>]),
             ret |-> FALSE],
            FirstChain.ref, input, 1)

\* the second chain has been built
Rerun == pc = "second"

\* C15: a pipeline keeps no state between runs: the chain a later AppendTo
\* builds shares no object with the chain built before, its window index is
\* 0 and its latch open, and however far the earlier chain was fed it
\* accepts and emits what a chain built first would.
C15_PipelineRunsAreIndependent ==
    Rerun =>
        /\ ChainOf(heap, twin.root) \cap ChainOf(heap, root) = {}
        /\ last.op = "AppendTo" =>
              \A n \in ChainOf(heap, twin.root) :
                 /\ heap[n].kind = "sliceConsumer" => heap[n].idx = 0
                 /\ heap[n].kind = "takeWhileConsumer" => ~heap[n].done
        /\ mem.y = Reference.w.mem.y
        /\ CanConsume(Now, twin.root).ret
             = CanConsume(WorldOf(variant, Reference.w.heap, Reference.w.mem),
                          FirstChain.ref).ret
        /\ last.op = "Feed" /\ last.node = twin.root =>
              last.ret = Reference.ret

\* the first chain is exhausted, its TakeWhile latched, and the second chain
\* has accepted a value and emitted it
C15_Witness ==
    /\ Rerun
    /\ \E n \in ChainOf(heap, root) :
          heap[n].kind = "takeWhileConsumer" /\ heap[n].done
    /\ ~CanConsume(Now, root).ret
    /\ last.op = "Feed"
    /\ last.node = twin.root
    /\ last.ret
    /\ Len(mem.y) > 0

\* the members of composite n that cannot consume
DeadMembers(n) == {m \in Range(List(n)) : ~CanConsume(Now, m).ret}

\* C21: a composite sees the liveness its members have now, however they
\* came to it: a CanConsume on the composite drops every member that can no
\* longer consume, those exhausted by Consume calls made on them directly
\* included, returns false exactly when no member can consume, and leaves
\* the values delivered so far where they are.
C21_CompositeSeesMembersDrivenOutside ==
    [][\A n \in Multis :
         (last'.op = "CanConsume" /\ last'.node = n)
         => /\ Range(List(n)') \cap DeadMembers(n) = {}
            /\ last'.ret = (DeadMembers(n) # Range(List(n)))
            /\ Terminals(heap', mem') = Terminals(heap, mem)]_vars

\* both members of the composite were exhausted by values pushed into them
\* directly (the two destinations hold values of different pushes), and the
\* composite has then answered false
C21_Witness ==
    /\ last.op = "CanConsume"
    /\ Kind(last.node) = "multiConsumer"
    /\ ~last.ret
    /\ "strs" \in DOMAIN mem
    /\ "ints" \in DOMAIN mem
    /\ Len(mem.strs) = 1
    /\ Len(mem.ints) = 2
    /\ mem.strs[1] # Itoa(mem.ints[1])

\* the values of the Consume calls among the calls cs[i], ...
RECURSIVE Consumed(_, _)
Consumed(cs, i) ==
    IF i > Len(cs) THEN <<>>
    ELSE IF cs[i].op = "Consume" THEN <<cs[i].value>> \o Consumed(cs, i + 1)
    ELSE Consumed(cs, i + 1)

\* Consume(vs[i]), ... on consumer n, starting in world w
RECURSIVE ConsumeAll(_, _, _, _)
ConsumeAll(w, n, vs, i) ==
    IF i > Len(vs) THEN w
    ELSE ConsumeAll(Consume(WorldOf(w.version, w.heap, w.mem), n, vs[i]),
                    n, vs, i + 1)

\* a builder for the same page, made anew
Unbuilt == NewPageBuilder(0, args.pageNo, args.perPage, "values",
                          [values |-> <<>>])

\* what Build gives on a builder that was given the Consume calls among
\* the calls cs and no Build
NeverBuilt(cs) ==
    PageBuilder_Build(ConsumeAll(WorldOf(variant, Unbuilt.objs, Unbuilt.mem),
                                 Unbuilt.ref, Consumed(cs, 1), 1),
                      Unbuilt.ref)

\* C22: Build changes nothing of the builder: the values it holds and its
\* window are as before the call, a Build directly after a Build returns the
\* same values and flag, and every Build returns what a builder given the
\* same Consume calls and no Build would return.
C22_BuildChangesNothing ==
    [][last'.op = "Build"
       => /\ heap' = heap
          /\ mem' = mem
          /\ last.op = "Build" => built' = built
          /\ built' = NeverBuilt(input')]_vars

\* a Build, values consumed after it, and a second Build that returns a
\* full page with more pages behind it
C22_Witness ==
    /\ pc = "builder"
    /\ last.op = "Build"
    /\ built.morePages
    /\ \E i \in 1..Len(input) :
          /\ input[i].op = "Build"
          /\ i + 1 < Len(input)
          /\ input[i + 1].op = "Consume"

\* the outermost consumer is what Compose returned for no consumers
ComposedOfNone == "argv" \in DOMAIN mem /\ mem.argv = <<>>

\* C23: the consumer Compose returns for no consumers behaves like Nil():
\* every CanConsume on it returns false, every Consume on it panics in
\* src/consume.go, and no call on it changes anything.
C23_ComposeOfNoneIsNil ==
    [][(ComposedOfNone /\ last'.node = root)
       => /\ Kind(root) = Obj(Now, NilRef).kind
          /\ last'.op = "CanConsume" => ~last'.ret /\ ~last'.panicked
          /\ last'.op = "Consume" => last'.panicked = (variant = "panic")
          /\ heap' = heap
          /\ mem' = mem]_vars

\* the consumer of Compose() has refused, then panicked on a Consume for the
\* second time
C23_Witness ==
    /\ ComposedOfNone
    /\ variant = "panic"
    /\ last.op = "Consume"
    /\ last.node = root
    /\ last.panicked
    /\ root \in sawFalse
    /\ nops > 1

\* the number of values a builder for page args.pageNo needs
Needed == (args.pageNo + 1) * args.perPage + 1

\* C24: a page builder for page p of n values, fed by a loop that asks
\* CanConsume before every push, answers true before each of the first
\* (p + 1) * n + 1 pushes and false ever after, so the loop ends, and ends
\* with (p + 1) * n + 1 values pushed.
C24_BuilderTakesJustEnough ==
    /\ [](/\ last.op = "CanConsume" => last.ret = (index < Needed)
          /\ pc = "push" => index < Needed
          /\ pc = "stopped" => index = Needed)
    /\ <>(pc = "stopped")

\* the loop has ended for the builder of the last page of the bounds, and
\* the builder has been asked again
C24_Witness ==
    /\ pc = "stopped"
    /\ Kind(root) = "PageBuilder"
    /\ args.pageNo > 0
    /\ args.perPage > 1
    /\ index = Needed
    /\ last.op = "CanConsume"
    /\ ~last.ret

\* the driver is one of the generator drivers
Generating == args.driver \in Generators

\* C25: a driver calls Consume only when the last call made on the consumer
\* was a CanConsume that returned true; a generator driver calls the
\* generator only then, and passes every value the generator returns, the
\* end signal excepted, to the consumer in its next step; a CanConsume that
\* returns false ends the loop, and a driver that has stopped makes no call.
C25_DriversAskBeforeEveryPush ==
    [][/\ nops' # nops
          => /\ last.op = "CanConsume"
             /\ last.ret
             /\ last'.op = "Consume"
             /\ last'.node = last.node
       /\ (Generating /\ index' # index)
          => /\ last.op = "CanConsume"
             /\ last.ret
             /\ Generate(input, index).ok => pc' = "push"
       /\ (Generating /\ pc = "push")
          => /\ last'.op = "Consume"
             /\ last'.value = Generate(input, index - 1).value
       /\ (pc = "check" /\ last'.op = "CanConsume" /\ ~last'.ret)
          => pc' = "stopped"
       /\ pc # "stopped"]_vars

\* FromGenerator has stopped on a false CanConsume with values left in the
\* generator; every value it pulled went to the consumer
C25_Witness ==
    /\ pc = "stopped"
    /\ "driver" \in DOMAIN args
    /\ args.driver = "FromGenerator"
    /\ last.op = "CanConsume"
    /\ ~last.ret
    /\ nops > 1
    /\ index = nops
    /\ index < Len(input)
    /\ input[index + 1].ok

\* C26: the function of AsFunc(consumer) calls consumer.Consume with its
\* argument and returns what consumer.CanConsume() returns after that call;
\* an iteration with it that stops at the first false, over more than k
\* values, leaves in the slice behind Slice(AppendTo(&x), 0, k) the first k
\* values.
C26_AsFuncReportsCanConsumeAfter ==
    [][last'.op = "AsFunc"
       => /\ trace'[1] = [ev |-> "Consume", node |-> root,
                          value |-> input[index + 1]]
          /\ last'.ret = CanConsume(World(heap', mem'), root).ret
          /\ (pc' = "stopped" /\ Kind(root) = "sliceConsumer"
                /\ Len(input) > heap[root].end)
             => mem'.x = SubSeq(input, 1, heap[root].end)]_vars

\* the iteration over five values has stopped at the second, on the false
\* of the function of a window of two
C26_Witness ==
    /\ pc = "stopped"
    /\ last.op = "AsFunc"
    /\ ~last.ret
    /\ Kind(root) = "sliceConsumer"
    /\ heap[root].end = 2
    /\ Len(input) > index
    /\ index = 2
    /\ mem.x = SubSeq(input, 1, 2)

\* the slice stages
SliceStages == {n \in DOMAIN heap : heap[n].kind = "sliceConsumer"}

\* what the CanConsume of slice n returns is its inner consumer's and the
\* index being below end
SliceAnswer(h, m, n) ==
    CanConsume(World(h, m), n).ret
        = (CanConsume(World(h, m), h[n].consumer).ret /\ h[n].idx < h[n].end)

\* in the call with trace t, consumer n was given a value and passed one on
\* to its inner consumer
PassedOn(t, n, inner) ==
    \E i \in 1..Len(t), j \in 1..Len(t) :
        /\ i < j
        /\ t[i].ev = "Consume" /\ t[i].node = n
        /\ t[j].ev = "Consume" /\ t[j].node = inner

\* C27: the CanConsume of a slice returns true exactly when its inner
\* consumer's does and its index is below end; no call lowers the index; and
\* a slice passes a value on only if its index was at or above start and
\* below end when the value was pushed.
C27_SliceWindowInvariant ==
    [][\A n \in SliceStages :
         /\ SliceAnswer(heap, mem, n)
         /\ SliceAnswer(heap', mem', n)
         /\ heap'[n].idx >= heap[n].idx
         /\ PassedOn(trace', n, heap[n].consumer)
            => /\ heap[n].start <= heap[n].idx
               /\ heap[n].idx < heap[n].end]_vars

\* a slice that has passed a value on refuses inside its window, because its
\* inner consumer was ended from outside
C27_Witness ==
    /\ last.op = "CanConsume"
    /\ Kind(last.node) = "sliceConsumer"
    /\ ~last.ret
    /\ heap[last.node].idx > heap[last.node].start
    /\ heap[last.node].idx < heap[last.node].end
    /\ Kind(heap[last.node].consumer) = "takeWhileConsumer"
    /\ heap[heap[last.node].consumer].done
    /\ Len(mem.x) > 0

\* a CanConsume on consumer m returned true in the call with trace t
Approved(t, m) ==
    \E i \in 1..Len(t) : t[i].ev = "CanConsume" /\ t[i].node = m /\ t[i].ret

\* the consumers object o forwards to
ChildrenOf(o) ==
    IF o.kind = "multiConsumer" THEN Range(Elems(Now, o.consumers))
    ELSE IF o.kind = "pageConsumer" THEN {o.Consumer}
    ELSE IF o.kind = "PageBuilder" THEN {o.consumer}
    ELSE {InnerOf(o)}

\* the consumers reachable from those of S
RECURSIVE Below(_)
Below(S) ==
    IF S \cap DOMAIN heap = {} THEN S
    ELSE S \cup Below(UNION {ChildrenOf(heap[m]) : m \in S \cap DOMAIN heap})

\* C28: a call that runs a composite's CanConsume leaves as its list the
\* members of the list before for which CanConsume returned true, in their
\* order; no call adds a member to the list or puts one back; and a value
\* pushed into the composite goes nowhere but to the members in its list and
\* to what lies below them, so never to a member that was removed.
C28_ListIsLiveSubsequence ==
    [][\A n \in Multis :
         /\ Queries(trace', {n}) # <<>>
            => List(n)' = SelectSeq(List(n), LAMBDA m : Approved(trace', m))
         /\ Len(List(n)') <= Len(List(n))
         /\ Range(List(n)') \subseteq Range(List(n))
         /\ \A m \in DOMAIN heap :
               PassedOn(trace', n, m) => m \in Below(Range(List(n)))]_vars

\* the composite, its first member removed before, has delivered a second
\* value to the member that is left
C28_Witness ==
    /\ last.op = "Consume"
    /\ Kind(last.node) = "multiConsumer"
    /\ ~last.panicked
    /\ Len(List(last.node)) = 1
    /\ "ints" \in DOMAIN mem
    /\ Len(mem.ints) = 2
    /\ Len(mem.strs) = 1
    /\ last.value = mem.ints[2]

\* the take-while stages
TakeWhileStages == {n \in DOMAIN heap : heap[n].kind = "takeWhileConsumer"}

\* what the CanConsume of take-while n returns: false once latched, its
\* inner consumer's before
LatchAnswer(h, m, n) ==
    CanConsume(World(h, m), n).ret
        = (~h[n].done /\ CanConsume(World(h, m), h[n].consumer).ret)

\* C29: a take-while that has latched stays latched, no later call invokes
\* its predicate, and its CanConsume returns false whatever its inner
\* consumer's returns; before it latches its CanConsume returns what its
\* inner consumer's returns.
C29_LatchIsFinal ==
    [][\A n \in TakeWhileStages :
         /\ LatchAnswer(heap, mem, n)
         /\ LatchAnswer(heap', mem', n)
         /\ heap[n].done
            => /\ heap'[n].done
               /\ \A i \in 1..Len(trace') :
                     ~(trace'[i].ev = "filter" /\ trace'[i].node = n)]_vars

\* a latched take-while whose inner consumer can still consume has been
\* pushed to
C29_Witness ==
    /\ last.op = "Consume"
    /\ Kind(last.node) = "takeWhileConsumer"
    /\ heap[last.node].done
    /\ last.dead
    /\ CanConsume(Now, heap[last.node].consumer).ret
    /\ Len(mem.x) > 0

\* consumer n refuses on its own account, whatever lies below it
SelfClosed(n) ==
    \/ Kind(n) = "nilConsumer"
    \/ Kind(n) = "sliceConsumer" /\ heap[n].idx >= heap[n].end
    \/ Kind(n) = "takeWhileConsumer" /\ heap[n].done

\* consumer n calls its predicate or mapper on every value that gets past
\* its own test
Invoking(n) ==
    \/ Kind(n) \in {"filterConsumer", "filterpConsumer", "mapConsumer",
                     "maybeMapConsumer"}
    \/ Kind(n) = "takeWhileConsumer" /\ ~heap[n].done

\* a Consume of part_001 on consumer n, made while n cannot consume
SilentOverpush(n) ==
    /\ variant = "silent"
    /\ last'.op = "Consume"
    /\ last'.node = n
    /\ ~CanConsume(Now, n).ret

\* C30 as stated: in part_001 a Consume on a consumer that cannot consume
\* reaches no terminal, invokes no predicate or mapper and changes no
\* window index and no latch.
C30_SilentOverpushIgnoredCompletely ==
    [][\A n \in handles :
         SilentOverpush(n)
         => /\ Terminals(heap', mem') = Terminals(heap, mem)
            /\ Invocations(trace') = <<>>
            /\ Indexes(heap') = Indexes(heap)
            /\ Latches(heap') = Latches(heap)]_vars

\* C30: in part_001 a Consume on a consumer that cannot consume reaches no
\* terminal and changes no stage that can still consume.  A consumer that
\* refuses on its own account (a slice at its end, a latched take-while,
\* Nil) does nothing at all.  A consumer that refuses because of what lies
\* below it goes on as usual: a filter, mapper or unlatched take-while calls
\* its function, a slice below its end counts the value; the functions
\* called and the stages changed all belong to consumers that cannot
\* consume.
C30_SilentOverpushStaysInRefusingStages ==
    [][\A n \in handles :
         SilentOverpush(n)
         => /\ Terminals(heap', mem') = Terminals(heap, mem)
            /\ SelfClosed(n)
               => /\ heap' = heap
                  /\ Invocations(trace') = <<>>
                  /\ Forwards(trace', n) = <<>>
            /\ \A i \in 1..Len(Invocations(trace')) :
                  ~CanConsume(Now, Invocations(trace')[i].node).ret
            /\ \A m \in DOMAIN heap :
                  heap'[m] # heap[m] => ~CanConsume(Now, m).ret
            /\ Invoking(n)
               => /\ Invocations(trace') # <<>>
                  /\ Invocations(trace')[1].node = n
            /\ (Kind(n) = "sliceConsumer" /\ heap[n].idx < heap[n].end)
               => heap'[n].idx = heap[n].idx + 1]_vars

\* a slice inside its window, over a take-while latched from outside, has
\* counted a value it could not pass on
C30_Witness ==
    /\ variant = "silent"
    /\ last.op = "Consume"
    /\ last.dead
    /\ Kind(last.node) = "sliceConsumer"
    /\ heap[last.node].idx <= heap[last.node].end
    /\ heap[last.node].idx > Len(mem.x) + heap[last.node].start
    /\ Kind(heap[last.node].consumer) = "takeWhileConsumer"

\* a page consumer for the same page, made on a slice that never held
\* anything
EmptyPage ==
    Page(0, args.pageNo, args.perPage, "x", "more",
         [x |-> <<>>, more |-> FALSE, before |-> <<>>])

\* the caller's memory after that consumer was offered the values vs and
\* finalized
FromEmpty(vs) ==
    pageConsumer_Finalize(
        FeedAll([w |-> WorldOf(variant, EmptyPage.objs, EmptyPage.mem),
                 ret |-> FALSE],
                EmptyPage.ref, vs, 1).w,
        EmptyPage.ref).mem

\* the values the driver has pushed so far
Pushed == SubSeq(input, 1, index)

\* C31: whatever the caller's slice held when Page was called, its length is
\* 0 when Page returns; until Finalize it holds no more values than were
\* pushed; after Finalize the slice and morePages are what they are for the
\* same pushes on a slice that was empty from the start, and every value in
\* the slice is one that was pushed.
C31_PageEmptiesCallersSlice ==
    [][/\ pc = "new" => Len(mem'.x) = 0
       /\ pc # "new" => Len(mem'.x) <= index'
       /\ pc' = "done"
          => /\ mem'.x = FromEmpty(Pushed).x
             /\ mem'.more = FromEmpty(Pushed).more
             /\ Range(mem'.x) \subseteq Range(Pushed)]_vars

\* the slice held three values and the page size is two: a finalized first
\* page of one value, which is not one the slice held before
C31_Witness ==
    /\ pc = "done"
    /\ Kind(root) = "pageConsumer"
    /\ mem.before = <<1, 1, 1>>
    /\ args.perPage = 2
    /\ mem.x = <<0>>
    /\ ~mem.more

====
